---- MODULE Spec2Model ----
(***************************************************************************)
(* Model of lazygit-lite's commit-graph panel: the navigation / expand     *)
(* state machine of internal/ui/components/graph/graph.go (graph.Model),   *)
(* the shell's message dispatch of internal/app (app.Model.Update) and the *)
(* diff pipeline of renderer.go that fills ExpandState.DiffLines.          *)
(*                                                                         *)
(* Go indices are 0-based and kept 0-based in the state (cursor,           *)
(* expandedIdx, FileIndex, scrollOffset); a TLA+ sequence s is read at     *)
(* s[i + 1].  A string is a sequence of one-character strings.             *)
(***************************************************************************)
EXTENDS Integers, Sequences, FiniteSets, Bags, TLC

\* ------------------------------------------------------------------------
\* Generic helpers
\* ------------------------------------------------------------------------

Max(a, b) == IF a > b THEN a ELSE b

Min(a, b) == IF a < b THEN a ELSE b

\* strings.HasPrefix over character sequences.
HasPrefix(s, p) == Len(s) >= Len(p) /\ SubSeq(s, 1, Len(p)) = p

\* s[from:] of Go, from 0-based.
Tail0(s, from) == SubSeq(s, from + 1, Len(s))

\* ------------------------------------------------------------------------
\* Diff pipeline (renderer.go)
\* ------------------------------------------------------------------------

Digits == {"0", "1", "2", "3", "4", "5", "6", "7", "8", "9"}

DigitVal(c) == CASE c = "0" -> 0 [] c = "1" -> 1 [] c = "2" -> 2 [] c = "3" -> 3
                 [] c = "4" -> 4 [] c = "5" -> 5 [] c = "6" -> 6 [] c = "7" -> 7
                 [] c = "8" -> 8 [] c = "9" -> 9

\* The run of decimal digits of s starting at 1-based position p: the
\* position after the run and the value read so far.
RECURSIVE scanNumber(_, _, _)
scanNumber(s, p, acc) ==
    IF p <= Len(s) /\ s[p] \in Digits
    THEN scanNumber(s, p + 1, acc * 10 + DigitVal(s[p]))
    ELSE [pos |-> p, val |-> acc]

RECURSIVE SkipSpace(_, _)
SkipSpace(s, p) == IF p <= Len(s) /\ s[p] = " " THEN SkipSpace(s, p + 1) ELSE p

\* fmt's %d: skip blanks, an optional sign, then at least one digit.
scanInt(s, p0) ==
    LET p1   == SkipSpace(s, p0)
        neg  == p1 <= Len(s) /\ s[p1] = "-"
        p2   == IF p1 <= Len(s) /\ s[p1] \in {"+", "-"} THEN p1 + 1 ELSE p1
        r    == scanNumber(s, p2, 0)
    IN  IF r.pos = p2
        THEN [ok |-> FALSE, pos |-> p2, val |-> 0]
        ELSE [ok |-> TRUE, pos |-> r.pos, val |-> IF neg THEN 0 - r.val ELSE r.val]

\* fmt.Sscanf(line, format, &args...): the values stored into the arguments
\* before the scan stopped (a failed scan keeps what it already stored).
\* format is a sequence of tokens: "%d", " " or a literal character.
RECURSIVE Sscanf(_, _, _, _, _)
Sscanf(s, p, format, fi, stored) ==
    IF fi > Len(format) THEN stored
    ELSE LET tok == format[fi] IN
         IF tok = "%d"
         THEN LET r == scanInt(s, p) IN
              IF r.ok THEN Sscanf(s, r.pos, format, fi + 1, Append(stored, r.val))
              ELSE stored
         ELSE IF tok = " "
         THEN IF p > Len(s) THEN Sscanf(s, p, format, fi + 1, stored)
              ELSE IF s[p] # " " THEN stored
              ELSE Sscanf(s, SkipSpace(s, p), format, fi + 1, stored)
         ELSE IF p <= Len(s) /\ s[p] = tok
              THEN Sscanf(s, p + 1, format, fi + 1, stored)
              ELSE stored

\* "@@ -%d,%d +%d,%d @@"
HunkFormatFull == <<"@", "@", " ", "-", "%d", ",", "%d", " ", "+", "%d", ",", "%d", " ", "@", "@">>

\* "@@ -%d +%d @@"
HunkFormatShort == <<"@", "@", " ", "-", "%d", " ", "+", "%d", " ", "@", "@">>

\* "@@ -%d,%d +%d @@"
HunkFormatOldCount == <<"@", "@", " ", "-", "%d", ",", "%d", " ", "+", "%d", " ", "@", "@">>

\* "@@ -%d +%d,%d @@"
HunkFormatNewCount == <<"@", "@", " ", "-", "%d", " ", "+", "%d", ",", "%d", " ", "@", "@">>

\* What one Sscanf call of parseHunkHeader leaves in <<oldStart, newStart>>:
\* cur holds them before the call, st is what the scan stored, oldAt / newAt
\* are the argument positions of &oldStart / &newStart.
hunkStore(cur, st, oldAt, newAt) ==
    << IF Len(st) >= oldAt THEN st[oldAt] ELSE cur[1],
       IF Len(st) >= newAt THEN st[newAt] ELSE cur[2] >>

hunkScan(cur, line, format, oldAt, newAt) ==
    hunkStore(cur, Sscanf(line, 1, format, 1, <<>>), oldAt, newAt)

\* The later Sscanf calls of parseHunkHeader, made while both starts are 0.
hunkRescan(cur, line, format, oldAt, newAt) ==
    IF cur[1] = 0 /\ cur[2] = 0 THEN hunkScan(cur, line, format, oldAt, newAt) ELSE cur

hunkStarts(cur) == [oldStart |-> cur[1], newStart |-> cur[2]]

parseHunkHeader(line) ==
    hunkStarts(
        hunkRescan(
            hunkRescan(
                hunkRescan(hunkScan(<<0, 0>>, line, HunkFormatFull, 1, 3),
                           line, HunkFormatShort, 1, 2),
                line, HunkFormatOldCount, 1, 3),
            line, HunkFormatNewCount, 1, 2))

PreambleDiffGit == <<"d", "i", "f", "f", " ", "-", "-", "g", "i", "t">>

PreambleIndex == <<"i", "n", "d", "e", "x", " ">>

PreambleNewFile == <<"n", "e", "w", " ", "f", "i", "l", "e">>

PreambleDeletedFile == <<"d", "e", "l", "e", "t", "e", "d", " ", "f", "i", "l", "e">>

isPreamble(line) ==
    \/ HasPrefix(line, PreambleDiffGit)
    \/ HasPrefix(line, PreambleIndex)
    \/ HasPrefix(line, <<"-", "-", "-">>)
    \/ HasPrefix(line, <<"+", "+", "+">>)
    \/ HasPrefix(line, PreambleNewFile)
    \/ HasPrefix(line, PreambleDeletedFile)

\* parseDiffLines over the lines of strings.Split(raw, "\n").
RECURSIVE parseDiffLinesFrom(_, _, _, _, _)
parseDiffLinesFrom(lines, i, oldLine, newLine, result) ==
    IF i > Len(lines) THEN result
    ELSE LET line == lines[i] IN
         IF isPreamble(line)
         THEN parseDiffLinesFrom(lines, i + 1, oldLine, newLine, result)
         ELSE IF HasPrefix(line, <<"@", "@">>)
         THEN parseDiffLinesFrom(lines, i + 1,
                  parseHunkHeader(line).oldStart, parseHunkHeader(line).newStart,
                  Append(result, [kind |-> "@", content |-> line, oldNum |-> 0, newNum |-> 0]))
         ELSE IF HasPrefix(line, <<"-">>)
         THEN parseDiffLinesFrom(lines, i + 1, oldLine + 1, newLine,
                  Append(result, [kind |-> "-", content |-> Tail0(line, 1), oldNum |-> oldLine, newNum |-> 0]))
         ELSE IF HasPrefix(line, <<"+">>)
         THEN parseDiffLinesFrom(lines, i + 1, oldLine, newLine + 1,
                  Append(result, [kind |-> "+", content |-> Tail0(line, 1), oldNum |-> 0, newNum |-> newLine]))
         ELSE IF HasPrefix(line, <<"\\">>)
         THEN parseDiffLinesFrom(lines, i + 1, oldLine, newLine,
                  Append(result, [kind |-> "\\", content |-> line, oldNum |-> 0, newNum |-> 0]))
         ELSE parseDiffLinesFrom(lines, i + 1, oldLine + 1, newLine + 1,
                  Append(result, [kind |-> " ",
                                  content |-> IF HasPrefix(line, <<" ">>) THEN Tail0(line, 1) ELSE line,
                                  oldNum |-> oldLine, newNum |-> newLine]))

parseDiffLines(raw) == parseDiffLinesFrom(raw, 1, 0, 0, <<>>)

\* The zero value of sideBySidePair (kind "" is Go's byte 0).
BlankPair == [leftNum |-> 0, leftText |-> <<>>, leftKind |-> "",
              rightNum |-> 0, rightText |-> <<>>, rightKind |-> ""]

\* Number of consecutive dlines of the given kind starting at 1-based i.
RECURSIVE runLength(_, _, _)
runLength(dlines, i, kind) ==
    IF i <= Len(dlines) /\ dlines[i].kind = kind THEN 1 + runLength(dlines, i + 1, kind) ELSE 0

\* The zipped row without its right side.
zipPair_LeftOnly(removes, adds, j) ==
    [leftNum   |-> IF j <= Len(removes) THEN removes[j].oldNum ELSE 0,
     leftText  |-> IF j <= Len(removes) THEN removes[j].content ELSE <<>>,
     leftKind  |-> IF j <= Len(removes) THEN "-" ELSE "",
     rightNum  |-> 0, rightText |-> <<>>, rightKind |-> ""]

zipPair(removes, adds, j) ==
    [leftNum   |-> IF j <= Len(removes) THEN removes[j].oldNum ELSE 0,
     leftText  |-> IF j <= Len(removes) THEN removes[j].content ELSE <<>>,
     leftKind  |-> IF j <= Len(removes) THEN "-" ELSE "",
     rightNum  |-> IF j <= Len(adds) THEN adds[j].newNum ELSE 0,
     rightText |-> IF j <= Len(adds) THEN adds[j].content ELSE <<>>,
     rightKind |-> IF j <= Len(adds) THEN "+" ELSE ""]

RECURSIVE buildPairsFrom(_, _, _)

\* The '-' case: nr removals from i on, then na additions, zipped into
\* max(nr, na) rows.
zipRun(dlines, i, nr, na, pairs) ==
    buildPairsFrom(dlines, i + nr + na,
        pairs \o [j \in 1..Max(nr, na) |->
                    zipPair(SubSeq(dlines, i, i + nr - 1),
                            SubSeq(dlines, i + nr, i + nr + na - 1), j)])

buildPairsFrom(dlines, i, pairs) ==
    IF i > Len(dlines) THEN pairs
    ELSE CASE dlines[i].kind = "@" ->
                buildPairsFrom(dlines, i + 1, Append(pairs,
                    [BlankPair EXCEPT !.leftKind = "@", !.leftText = dlines[i].content,
                                      !.rightKind = "@", !.rightText = dlines[i].content]))
           [] dlines[i].kind = " " ->
                buildPairsFrom(dlines, i + 1, Append(pairs,
                    [leftNum |-> dlines[i].oldNum, leftText |-> dlines[i].content, leftKind |-> " ",
                     rightNum |-> dlines[i].newNum, rightText |-> dlines[i].content, rightKind |-> " "]))
           [] dlines[i].kind = "-" ->
                zipRun(dlines, i, runLength(dlines, i, "-"),
                       runLength(dlines, i + runLength(dlines, i, "-"), "+"), pairs)
           [] dlines[i].kind = "+" ->
                buildPairsFrom(dlines, i + 1, Append(pairs,
                    [BlankPair EXCEPT !.rightNum = dlines[i].newNum, !.rightText = dlines[i].content,
                                      !.rightKind = "+"]))
           [] dlines[i].kind = "\\" ->
                buildPairsFrom(dlines, i + 1, Append(pairs,
                    [BlankPair EXCEPT !.leftKind = "\\", !.leftText = dlines[i].content,
                                      !.rightKind = "\\", !.rightText = dlines[i].content]))
           [] OTHER -> buildPairsFrom(dlines, i + 1, pairs)

buildSideBySidePairs(dlines) == buildPairsFrom(dlines, 1, <<>>)

\* const maxDiffLines of FormatDiffLines.
maxDiffLines == 300

\* truncate(s, maxWidth)
truncate(s, maxWidth) ==
    IF maxWidth <= 0 THEN s
    ELSE IF Len(s) > maxWidth THEN SubSeq(s, 1, maxWidth) ELSE s

\* One rendered row of FormatDiffLines; colours are left out, the cells
\* and their text are kept.
renderPair(p, maxWidth, contentWidth) ==
    IF p.leftKind = "@"
    THEN [row |-> "hunk", text |-> truncate(p.leftText, maxWidth)]
    ELSE IF p.leftKind = "\\" \/ p.rightKind = "\\"
    THEN [row |-> "note", text |-> truncate(p.leftText, maxWidth)]
    ELSE [row       |-> "pair",
          leftNum   |-> IF p.leftKind \in {"-", " "} THEN p.leftNum ELSE -1,
          leftText  |-> IF p.leftKind \in {"-", " "} THEN truncate(p.leftText, contentWidth) ELSE <<>>,
          leftKind  |-> IF p.leftKind \in {"-", " "} THEN p.leftKind ELSE "",
          rightNum  |-> IF p.rightKind \in {"+", " "} THEN p.rightNum ELSE -1,
          rightText |-> IF p.rightKind \in {"+", " "} THEN truncate(p.rightText, contentWidth) ELSE <<>>,
          rightKind |-> IF p.rightKind \in {"+", " "} THEN p.rightKind ELSE ""]

\* FormatDiffLines: the width of the text of one side (half the width,
\* at least 10, less the line-number column, at least 4).
contentWidthFor(maxWidth) == Max(4, Max(10, (maxWidth - 1) \div 2) - 5)

\* FormatDiffLines: one rendered row per pair.
renderPairs(pairs, maxWidth, contentWidth) ==
    [k \in 1..Len(pairs) |-> renderPair(pairs[k], maxWidth, contentWidth)]

\* The cap without the summary row.
capRows_NoSummary(result, total) ==
    IF Len(result) > maxDiffLines THEN SubSeq(result, 1, maxDiffLines) ELSE result

\* FormatDiffLines: the cap at maxDiffLines rows; total is len(pairs).
capRows(result, total) ==
    IF Len(result) > maxDiffLines
    THEN Append(SubSeq(result, 1, maxDiffLines),
                [row |-> "more", count |-> total - maxDiffLines])
    ELSE result

formatPairs(pairs, maxWidth) ==
    capRows(renderPairs(pairs, maxWidth, contentWidthFor(maxWidth)), Len(pairs))

\* FormatDiffLines(diff, maxWidth); diff is the text split at "\n", so the
\* empty string is the one-element sequence of the empty line.
FormatDiffLines(diff, maxWidth) ==
    IF diff = << <<>> >> THEN <<>>
    ELSE formatPairs(buildSideBySidePairs(parseDiffLines(diff)), maxWidth)

\* ------------------------------------------------------------------------
\* Data of the navigation model
\* ------------------------------------------------------------------------

\* git.UncommittedHash
UncommittedHash == "0000000000000000000000000000000000000000"

\* m.height of graph.Model: the number of viewport rows.
Height == 2

\* m.width of graph.Model.
Width == 80

\* Most different commands that may be in flight at once.
MaxPending == 1

\* Most runs of the working-tree file command that may be in flight at once.
MaxCopies == 2

\* git.Commit, reduced to the fields the panel reads: Hash, Parents and the
\* number of Refs.
Commit(hash, parents, refs) == [Hash |-> hash, Parents |-> parents, Refs |-> refs]

\* Commit lists GetCommits / prependUncommitted can deliver: a three-commit
\* chain, the same chain under the synthetic working-tree row, and the chain
\* cut to its first two commits.
BaseCommits == << Commit("a", <<"b">>, 1), Commit("b", <<"c">>, 0), Commit("c", <<>>, 0) >>

DirtyCommits == << Commit(UncommittedHash, <<"a">>, 0) >> \o BaseCommits

ShortCommits == << Commit("a", <<"b">>, 1), Commit("b", <<"c">>, 0) >>

CommitLists == {BaseCommits, DirtyCommits, ShortCommits}

\* The changed files GetChangedFiles / GetWorkingTreeFiles report for a
\* commit (git.ChangedFile reduced to its Path).
FilesOf(hash) ==
    CASE hash = "a" -> <<"f1", "f2">>
      [] hash = "b" -> <<>>
      [] hash = "c" -> <<"f2">>
      [] OTHER      -> <<"f3">>

\* What GetWorkingTreeFiles (git status --porcelain) can report: it reads
\* the working tree at the time it runs, so two runs may differ; the changes
\* listed by one run may be gone at the next.
WorkingTreeFiles == {FilesOf(UncommittedHash), <<>>}

\* "@@ -1 +1 @@"
SampleHunk == <<"@", "@", " ", "-", "1", " ", "+", "1", " ", "@", "@">>

\* The text GetFileDiff / GetWorkingTreeFileDiff returns, split at "\n":
\* f1 has a three-row diff, f2 an empty diff, f3 a one-line diff.
DiffOf(hash, path) ==
    CASE path = "f1" -> << SampleHunk, <<"-", "x">>, <<"+", "y">>, <<>> >>
      [] path = "f2" -> << <<>> >>
      [] OTHER       -> << <<"+", "z">> >>

\* A nil *ExpandState.
NoExpand == [none |-> TRUE]

\* Commands an update returns (tea.Cmd), by what they will deliver.
NoCmd == [kind |-> "none"]

SelectionCmd(commit) == [kind |-> "selection", commit |-> commit]

LoadFilesCmd(hash) == [kind |-> "loadFiles", hash |-> hash]

\* A diff request that names the commit only.
LoadDiffCmd_NoPath(hash, path) == [kind |-> "loadDiff", hash |-> hash, path |-> ""]

LoadDiffCmd(hash, path) == [kind |-> "loadDiff", hash |-> hash, path |-> path]

\* (Model, tea.Cmd) as returned by the handlers.
Result(m, c) == [m |-> m, cmd |-> c]

\* ------------------------------------------------------------------------
\* Lane layout (renderer.go, GraphBuilder).  Vertices, lanes and colours are
\* 0-based numbers as in the code, -1 is an empty lane / no colour.
\* ------------------------------------------------------------------------

\* LaneSpacing: padding characters after each lane glyph.
LaneSpacing == 1

\* gb.commitIndex[hash] after the first loop of InitGraph: the index of the
\* last commit with that hash, -1 if the hash is not in the list.
commitIndex(commitList, hash) ==
    LET S == {i \in 1..Len(commitList) : commitList[i].Hash = hash}
    IN  IF S = {} THEN -1 ELSE (CHOOSE i \in S : \A j \in S : j <= i) - 1

\* InitGraph, second loop: the parents of a commit that are in the list.
RECURSIVE resolveParents(_, _)
resolveParents(commitList, hashes) ==
    IF hashes = <<>> THEN <<>>
    ELSE LET parentIdx == commitIndex(commitList, Head(hashes))
         IN  (IF parentIdx >= 0 THEN <<parentIdx>> ELSE <<>>)
               \o resolveParents(commitList, Tail(hashes))

\* InitGraph, second loop: the children of vertex p in the order they were
\* appended, scanning the parents of the vertices from i on (i 1-based).
RECURSIVE childrenFrom(_, _, _)
childrenFrom(parents, p, i) ==
    IF i > Len(parents) THEN <<>>
    ELSE LET hits == SelectSeq(parents[i], LAMBDA q : q = p)
         IN  (IF Len(hits) = 0 THEN <<>> ELSE [k \in 1..Len(hits) |-> i - 1])
               \o childrenFrom(parents, p, i + 1)

\* The first lane, free or not.
findAvailableLane_First(lanes) == 0

findAvailableLane(lanes) ==
    LET free == {l \in 1..Len(lanes) : lanes[l] = -1}
    IN  IF free = {} THEN Len(lanes)
        ELSE (CHOOSE l \in free : \A k \in free : l <= k) - 1

\* The tables returned as they are, trailing empty lanes included.
trimEmptyTrailingLanesWithColors_KeepAll(lanes, laneColors) ==
    [lanes |-> lanes, laneColors |-> laneColors]

trimEmptyTrailingLanesWithColors(lanes, laneColors) ==
    LET active     == {l \in 1..Len(lanes) : lanes[l] # -1}
        lastActive == IF active = {} THEN 0
                      ELSE CHOOSE l \in active : \A k \in active : k <= l
    IN  [lanes |-> SubSeq(lanes, 1, lastActive),
         laneColors |-> SubSeq(laneColors, 1, lastActive)]

\* "for len(lanes) <= lane { append -1 }": the slice grown to hold lane.
growLanes(s, lane) ==
    IF Len(s) > lane THEN s ELSE s \o [k \in 1..(lane + 1 - Len(s)) |-> -1]

\* LaneState as stored in a snapshot.
LaneState(lanes, laneColors) ==
    [lanes |-> lanes, laneColors |-> laneColors, maxLanes |-> Len(lanes)]

\* computeLayout's isMergeTarget: v is a secondary parent of some vertex.
isMergeTarget(parents, v) ==
    \E u \in 1..Len(parents) : \E j \in 2..Len(parents[u]) : parents[u][j] = v

\* Step 1 without the comparison of lanes: the lane of the first placed
\* first-parent child that is no merge target, whatever the later ones hold.
inheritFromChild_First(gb, i, k, best) ==
    LET takers == {n \in k..Len(gb.children[i + 1]) :
                      /\ gb.x[gb.children[i + 1][n] + 1] >= 0
                      /\ Len(gb.parents[gb.children[i + 1][n] + 1]) > 0
                      /\ gb.parents[gb.children[i + 1][n] + 1][1] = i
                      /\ ~isMergeTarget(gb.parents, gb.children[i + 1][n])}
    IN  IF best.lane # -1 \/ takers = {} THEN best
        ELSE [lane  |-> gb.x[gb.children[i + 1][CHOOSE n \in takers : \A m \in takers : n <= m] + 1],
              color |-> gb.color[gb.children[i + 1][CHOOSE n \in takers : \A m \in takers : n <= m] + 1]]

\* child is a child of i through its first parent.
isFirstParentOf(gb, childIdx, i) ==
    Len(gb.parents[childIdx + 1]) > 0 /\ gb.parents[childIdx + 1][1] = i

\* computeLayout step 1 over the children of i from the k-th on:
\* the leftmost lane of a placed first-parent child that is no merge target.
RECURSIVE inheritFromChild(_, _, _, _)
inheritFromChild(gb, i, k, best) ==
    IF k > Len(gb.children[i + 1]) THEN best
    ELSE LET childIdx == gb.children[i + 1][k]
             takes    == /\ gb.x[childIdx + 1] >= 0
                         /\ isFirstParentOf(gb, childIdx, i)
                         /\ ~isMergeTarget(gb.parents, childIdx)
                         /\ (best.lane = -1 \/ gb.x[childIdx + 1] < best.lane)
         IN  inheritFromChild(gb, i, k + 1,
                 IF takes THEN [lane |-> gb.x[childIdx + 1], color |-> gb.color[childIdx + 1]]
                 ELSE best)

\* computeLayout step 2 for the first lane laneIdx that holds i: the lane
\* and its colour, unless the reservation came from a merge-target child.
reservedAt(gb, i, laneIdx) ==
    IF \E k \in 1..Len(gb.children[i + 1]) :
          /\ gb.x[gb.children[i + 1][k] + 1] = laneIdx
          /\ isFirstParentOf(gb, gb.children[i + 1][k], i)
          /\ isMergeTarget(gb.parents, gb.children[i + 1][k])
    THEN [lane |-> -1, color |-> -1]
    ELSE [lane |-> laneIdx, color |-> gb.laneColors[laneIdx + 1]]

\* computeLayout step 2: the first lane reserved for i.
reservedLane(gb, i) ==
    IF \A l \in 1..Len(gb.lanes) : gb.lanes[l] # i
    THEN [lane |-> -1, color |-> -1]
    ELSE reservedAt(gb, i,
             (CHOOSE l \in 1..Len(gb.lanes) :
                 /\ gb.lanes[l] = i
                 /\ \A k \in 1..(l - 1) : gb.lanes[k] # i) - 1)

\* computeLayout step 7 from the j-th parent on (j 1-based, so from 2):
\* t holds lanes, laneColors and nextColor.
RECURSIVE reserveSecondaryParents(_, _, _)
reserveSecondaryParents(ps, j, t) ==
    IF j > Len(ps) THEN t
    ELSE LET parentIdx     == ps[j]
             alreadyPlaced == \E l \in 1..Len(t.lanes) : t.lanes[l] = parentIdx
             parentLane    == findAvailableLane(t.lanes)
             lanes1        == growLanes(t.lanes, parentLane)
             colors1       == growLanes(t.laneColors, parentLane)
         IN  IF alreadyPlaced THEN reserveSecondaryParents(ps, j + 1, t)
             ELSE reserveSecondaryParents(ps, j + 1,
                      [lanes      |-> [lanes1 EXCEPT ![parentLane + 1] = parentIdx],
                       laneColors |-> [colors1 EXCEPT ![parentLane + 1] = t.nextColor],
                       nextColor  |-> (t.nextColor + 1) % 5])

\* Nothing is inherited: every vertex looks for a free lane.
inheritedLane_Fresh(gb, i, donor) == [lane |-> -1, color |-> -1]

\* Steps 1 and 2 together: the lane and colour i inherits, if any.
inheritedLane(gb, i, donor) ==
    IF donor.lane = -1 THEN reservedLane(gb, i) ELSE donor

\* Step 3: a free lane if nothing was inherited.
chooseLane(gb, found) ==
    [lane  |-> IF found.lane = -1 THEN findAvailableLane(gb.lanes) ELSE found.lane,
     color |-> found.color]

\* "Assign color": the inherited colour or the next of the rotation.
vertexColor(gb, inheritedColor) ==
    IF inheritedColor >= 0 THEN inheritedColor ELSE gb.nextColor

rotateColor(gb, inheritedColor) ==
    IF inheritedColor >= 0 THEN gb.nextColor ELSE (gb.nextColor + 1) % 5

\* The lane table with i in its lane and its other reservations left alone.
occupyLanes_NoCleanup(lanes0, i, lane) ==
    [l \in 1..Len(lanes0) |-> IF l = lane + 1 THEN i ELSE lanes0[l]]

\* The lane table with i in its lane and, step 4, its other reservations
\* cleared; lanes0 / colors0 are the tables grown to hold the lane.
occupyLanes(lanes0, i, lane) ==
    [l \in 1..Len(lanes0) |->
        IF l = lane + 1 THEN i ELSE IF lanes0[l] = i THEN -1 ELSE lanes0[l]]

occupyColors(lanes0, colors0, i, lane, color) ==
    [l \in 1..Len(lanes0) |->
        IF l = lane + 1 THEN color ELSE IF lanes0[l] = i THEN -1 ELSE colors0[l]]

\* Vertex i placed in lane at.lane (at.color is the inherited colour).
placeVertex(gb, i, at) ==
    [gb EXCEPT !.x = [@ EXCEPT ![i + 1] = at.lane],
               !.color = [@ EXCEPT ![i + 1] = vertexColor(gb, at.color)],
               !.nextColor = rotateColor(gb, at.color),
               !.lanes = occupyLanes(growLanes(gb.lanes, at.lane), i, at.lane),
               !.laneColors = occupyColors(growLanes(gb.lanes, at.lane),
                                           growLanes(gb.laneColors, at.lane),
                                           i, at.lane, vertexColor(gb, at.color))]

\* "Capture pre-snapshot"
preSnapshot(gb) ==
    [gb EXCEPT !.laneSnapshots = Append(@, LaneState(gb.lanes, gb.laneColors))]

\* Step 5: lane l (1-based) was handed down to i by a first-parent child
\* that sits in another lane than i.
converges(gb, i, l) ==
    \E k \in 1..Len(gb.children[i + 1]) :
       /\ isFirstParentOf(gb, gb.children[i + 1][k], i)
       /\ gb.x[gb.children[i + 1][k] + 1] # gb.x[i + 1]
       /\ gb.x[gb.children[i + 1][k] + 1] = l - 1
       /\ gb.lanes[l] = i

\* The handoff that leaves the lane of a vertex without parents as it is.
handOff_RootStays(gb, i) ==
    IF Len(gb.parents[i + 1]) = 0 THEN gb
    ELSE [gb EXCEPT !.lanes = [@ EXCEPT ![gb.x[i + 1] + 1] = gb.parents[i + 1][1]]]

\* No handoff: the lane table stays as the pre-snapshot has it, with i in
\* its own lane.
handOff_KeepLane(gb, i) == gb

\* Steps 5 and 6: converging lanes freed, the lane of i handed to its
\* first parent (or freed if it has none).
handOff(gb, i) ==
    [gb EXCEPT
       !.lanes = [l \in 1..Len(gb.lanes) |->
                    IF l = gb.x[i + 1] + 1
                    THEN (IF Len(gb.parents[i + 1]) > 0 THEN gb.parents[i + 1][1] ELSE -1)
                    ELSE IF converges(gb, i, l) THEN -1 ELSE gb.lanes[l]],
       !.laneColors = [l \in 1..Len(gb.lanes) |->
                    IF l = gb.x[i + 1] + 1
                    THEN (IF Len(gb.parents[i + 1]) > 0 THEN gb.color[i + 1] ELSE -1)
                    ELSE IF converges(gb, i, l) THEN -1 ELSE gb.laneColors[l]]]

\* The locals lanes, laneColors and nextColor set from t.
withLanes(gb, t) ==
    [gb EXCEPT !.lanes = t.lanes, !.laneColors = t.laneColors, !.nextColor = t.nextColor]

\* Step 7
reserveParents(gb, i) ==
    withLanes(gb, reserveSecondaryParents(gb.parents[i + 1], 2,
                      [lanes |-> gb.lanes, laneColors |-> gb.laneColors,
                       nextColor |-> gb.nextColor]))

\* The trimmed tables t, their post-snapshot and the tracked maximum.
postSnapshot(gb, t) ==
    [gb EXCEPT !.lanes = t.lanes,
               !.laneColors = t.laneColors,
               !.postLaneSnapshots = Append(@, LaneState(t.lanes, t.laneColors)),
               !.maxLanes = IF Len(t.lanes) > @ THEN Len(t.lanes) ELSE @]

trimAndSnapshot(gb) ==
    postSnapshot(gb, trimEmptyTrailingLanesWithColors(gb.lanes, gb.laneColors))

\* One pass of computeLayout's loop up to the trimming: vertex i is placed,
\* the pre-snapshot of its row is taken and the lane table is handed to its
\* parents.
untrimmedRow(gb, i) ==
    reserveParents(
        handOff(
            preSnapshot(
                placeVertex(gb, i,
                    chooseLane(gb,
                        inheritedLane(gb, i,
                            inheritFromChild(gb, i, 1, [lane |-> -1, color |-> -1]))))),
            i),
        i)

\* One pass of computeLayout's loop: the row of vertex i with the lane
\* table trimmed and the post-snapshot taken.
layoutRow(gb, i) == trimAndSnapshot(untrimmedRow(gb, i))

RECURSIVE layoutFrom(_, _)
layoutFrom(gb, i) ==
    IF i >= Len(gb.parents) THEN gb ELSE layoutFrom(layoutRow(gb, i), i + 1)

computeLayout(gb) == IF Len(gb.parents) = 0 THEN gb ELSE layoutFrom(gb, 0)

\* InitGraph up to the call of computeLayout: the vertices with their edges
\* inside the list.  lanes, laneColors and nextColor are the locals of
\* computeLayout.
buildVertices(commitList) ==
    LET n        == Len(commitList)
        parents  == IF n = 0 THEN <<>>
                    ELSE [i \in 1..n |-> resolveParents(commitList, commitList[i].Parents)]
        children == IF n = 0 THEN <<>>
                    ELSE [p \in 1..n |-> childrenFrom(parents, p - 1, 1)]
        unset    == IF n = 0 THEN <<>> ELSE [i \in 1..n |-> -1]
    IN  [parents |-> parents, children |-> children,
         x |-> unset, color |-> unset,
         lanes |-> <<>>, laneColors |-> <<>>, nextColor |-> 0,
         laneSnapshots |-> <<>>, postLaneSnapshots |-> <<>>,
         maxLanes |-> 0]

\* InitGraph: the vertices, then the layout.
InitGraph(commitList) == computeLayout(buildVertices(commitList))

\* GraphRenderer.MaxLanes for the renderer of a panel showing commitList
\* (New and SetCommits call InitGraph with the list).
MaxLanes(commitList) ==
    LET n == InitGraph(commitList).maxLanes
    IN  IF n = 0 THEN 1 + LaneSpacing ELSE n * (1 + LaneSpacing)

\* ------------------------------------------------------------------------
\* graph.Model (graph.go).  m is the record of the fields commits, cursor,
\* scrollOffset, expandedIdx, expandState and lastCursor.
\* ------------------------------------------------------------------------

\* graph.New
New(commitList) ==
    [commits |-> commitList, cursor |-> 0, scrollOffset |-> 0,
     expandedIdx |-> -1, expandState |-> NoExpand, lastCursor |-> 0]

isExpanded(m) == m.expandedIdx >= 0 /\ m.expandState # NoExpand

\* collapseExpanded that resets the index and keeps the ExpandState.
collapseExpanded_KeepState(m) == [m EXCEPT !.expandedIdx = -1]

collapseExpanded(m) == [m EXCEPT !.expandedIdx = -1, !.expandState = NoExpand]

metadataLineCount(m) ==
    IF m.expandState = NoExpand \/ m.expandedIdx < 0 \/ m.expandedIdx >= Len(m.commits)
    THEN 0
    ELSE LET commit == m.commits[m.expandedIdx + 1] IN
         IF commit.Hash = UncommittedHash THEN 2
         ELSE IF commit.Refs > 0 THEN 4 ELSE 3

\* Lines of the diff drawn below a file entry.
diffRowsBelow(es, path) ==
    IF path = es.ExpandedFile /\ Len(es.DiffLines) > 0 THEN Len(es.DiffLines) ELSE 0

\* Lines taken by the file entries 0 .. n-1 and the diff below them.
RECURSIVE fileLinesBefore(_, _)
fileLinesBefore(es, n) ==
    IF n <= 0 THEN 0
    ELSE fileLinesBefore(es, n - 1) + 1 + diffRowsBelow(es, es.Files[n])

expandedLineCount(m) ==
    IF m.expandState = NoExpand THEN 0
    ELSE metadataLineCount(m) + fileLinesBefore(m.expandState, Len(m.expandState.Files))

totalVisualLines(m) ==
    Len(m.commits) + IF isExpanded(m) THEN expandedLineCount(m) ELSE 0

RECURSIVE cursorVisualLineFrom(_, _, _)
cursorVisualLineFrom(m, i, visLine) ==
    IF i >= Len(m.commits) THEN visLine
    ELSE IF i = m.cursor
    THEN IF isExpanded(m) /\ m.expandedIdx = m.cursor /\ m.expandState.FileIndex >= 0
         THEN visLine + 1 + metadataLineCount(m)
                + fileLinesBefore(m.expandState, m.expandState.FileIndex)
         ELSE visLine
    ELSE cursorVisualLineFrom(m, i + 1,
             visLine + 1 + IF i = m.expandedIdx /\ m.expandState # NoExpand
                           THEN expandedLineCount(m) ELSE 0)

cursorVisualLine(m) == cursorVisualLineFrom(m, 0, 0)

expandedFileDiffEndVisLine(m) ==
    IF ~isExpanded(m) \/ m.expandState = NoExpand
    THEN 0
    ELSE IF m.expandState.ExpandedFile = "" \/ Len(m.expandState.DiffLines) = 0
    THEN 0
    ELSE cursorVisualLine(m) + Len(m.expandState.DiffLines)

clampScroll(m) ==
    LET maxScroll == Max(0, totalVisualLines(m) - Height)
        s1 == IF m.scrollOffset > maxScroll THEN maxScroll ELSE m.scrollOffset
        s2 == IF s1 < 0 THEN 0 ELSE s1
    IN  [m EXCEPT !.scrollOffset = s2]

ensureCursorVisible(m) ==
    LET c  == cursorVisualLine(m)
        s1 == IF c < m.scrollOffset THEN c ELSE m.scrollOffset
        s2 == IF c >= s1 + Height THEN c - Height + 1 ELSE s1
    IN  clampScroll([m EXCEPT !.scrollOffset = s2])

ensureExpandedVisible(m) ==
    LET c == cursorVisualLine(m)
        s == IF c >= m.scrollOffset + Height THEN c - Height + 1 ELSE m.scrollOffset
    IN  clampScroll([m EXCEPT !.scrollOffset = s])

\* SelectedCommit reports whether a commit is selected (nil otherwise).
hasSelectedCommit(m) == m.cursor >= 0 /\ m.cursor < Len(m.commits)

\* emitSelectionChanged without the lastCursor test.
emitSelectionChanged_Always(m) ==
    LET m1 == [m EXCEPT !.lastCursor = m.cursor] IN
    IF ~hasSelectedCommit(m1) THEN Result(m1, NoCmd)
    ELSE Result(m1, SelectionCmd(m1.commits[m1.cursor + 1]))

emitSelectionChanged(m) ==
    IF m.cursor = m.lastCursor THEN Result(m, NoCmd)
    ELSE LET m1 == [m EXCEPT !.lastCursor = m.cursor] IN
         IF ~hasSelectedCommit(m1) THEN Result(m1, NoCmd)
         ELSE Result(m1, SelectionCmd(m1.commits[m1.cursor + 1]))

\* The tail shared by both branches of moveCursorDown: step to the next
\* commit row if there is one.
stepToNextCommit(m) ==
    IF m.cursor < Len(m.commits) - 1
    THEN emitSelectionChanged(ensureCursorVisible([m EXCEPT !.cursor = m.cursor + 1]))
    ELSE Result(m, NoCmd)

moveCursorDown(m) ==
    IF isExpanded(m)
    THEN LET es == m.expandState IN
         IF es.ExpandedFile # "" /\ Len(es.DiffLines) > 0
         THEN IF expandedFileDiffEndVisLine(m) >= m.scrollOffset + Height
              THEN Result(clampScroll([m EXCEPT !.scrollOffset = m.scrollOffset + 1]), NoCmd)
              ELSE LET closed == [es EXCEPT !.ExpandedFile = "", !.DiffLines = <<>>] IN
                   IF closed.FileIndex < Len(closed.Files) - 1
                   THEN Result(ensureCursorVisible(
                            [m EXCEPT !.expandState = [closed EXCEPT !.FileIndex = closed.FileIndex + 1]]),
                            NoCmd)
                   ELSE stepToNextCommit(collapseExpanded(m))
         ELSE IF es.FileIndex < Len(es.Files) - 1
              THEN Result(ensureCursorVisible(
                       [m EXCEPT !.expandState = [es EXCEPT !.FileIndex = es.FileIndex + 1]]), NoCmd)
              ELSE stepToNextCommit(collapseExpanded(m))
    ELSE stepToNextCommit(m)

moveCursorUp(m) ==
    IF isExpanded(m)
    THEN LET es == m.expandState IN
         IF es.ExpandedFile # "" /\ Len(es.DiffLines) > 0
         THEN IF cursorVisualLine(m) < m.scrollOffset
              THEN Result([m EXCEPT !.scrollOffset = Max(0, m.scrollOffset - 1)], NoCmd)
              ELSE Result(ensureCursorVisible(
                       [m EXCEPT !.expandState = [es EXCEPT !.ExpandedFile = "", !.DiffLines = <<>>]]),
                       NoCmd)
         ELSE IF es.FileIndex > -1
              THEN Result(ensureCursorVisible(
                       [m EXCEPT !.expandState = [es EXCEPT !.FileIndex = es.FileIndex - 1]]), NoCmd)
              ELSE Result(ensureCursorVisible(collapseExpanded(m)), NoCmd)
    ELSE IF m.cursor > 0
         THEN emitSelectionChanged(ensureCursorVisible([m EXCEPT !.cursor = m.cursor - 1]))
         ELSE Result(m, NoCmd)

\* goToTop that moves the cursor without emitSelectionChanged.
goToTop_NoEmit(m) ==
    Result([collapseExpanded(m) EXCEPT !.cursor = 0, !.scrollOffset = 0], NoCmd)

goToTop(m) ==
    emitSelectionChanged([collapseExpanded(m) EXCEPT !.cursor = 0, !.scrollOffset = 0])

goToBottom(m) ==
    LET m1 == collapseExpanded(m)
        m2 == IF Len(m1.commits) > 0 THEN [m1 EXCEPT !.cursor = Len(m1.commits) - 1] ELSE m1
    IN  emitSelectionChanged(ensureCursorVisible(m2))

pageDown(m) ==
    LET m1 == collapseExpanded(m)
        c1 == m1.cursor + (Height \div 2)
        c2 == IF c1 >= Len(m1.commits) THEN Len(m1.commits) - 1 ELSE c1
        c3 == IF c2 < 0 THEN 0 ELSE c2
    IN  emitSelectionChanged(ensureCursorVisible([m1 EXCEPT !.cursor = c3]))

pageUp(m) ==
    LET m1 == collapseExpanded(m)
        c1 == m1.cursor - (Height \div 2)
        c2 == IF c1 < 0 THEN 0 ELSE c1
    IN  emitSelectionChanged(ensureCursorVisible([m1 EXCEPT !.cursor = c2]))

\* graph.Model.handleKey
graphHandleKey(m, key) ==
    CASE key = "down"   -> moveCursorDown(m)
      [] key = "up"     -> moveCursorUp(m)
      [] key = "home"   -> goToTop(m)
      [] key = "end"    -> goToBottom(m)
      [] key = "ctrl+d" -> pageDown(m)
      [] key = "ctrl+u" -> pageUp(m)
      [] OTHER          -> Result(m, NoCmd)

wheelUp(m) ==
    LET m1 == collapseExpanded(m)
        s  == Max(0, m1.scrollOffset - 3)
        c1 == IF m1.cursor > s + Height - 1 THEN s + Height - 1 ELSE m1.cursor
        c2 == IF c1 >= Len(m1.commits) THEN Len(m1.commits) - 1 ELSE c1
        c3 == IF c2 < s THEN s ELSE c2
    IN  emitSelectionChanged([m1 EXCEPT !.scrollOffset = s, !.cursor = c3])

wheelDown(m) ==
    LET m1 == collapseExpanded(m)
        m2 == clampScroll([m1 EXCEPT !.scrollOffset = m1.scrollOffset + 3])
        s  == m2.scrollOffset
        c1 == IF m2.cursor < s THEN s ELSE m2.cursor
        c2 == IF c1 >= Len(m2.commits) THEN Len(m2.commits) - 1 ELSE c1
        c3 == IF c2 > s + Height - 1 THEN s + Height - 1 ELSE c2
    IN  emitSelectionChanged([m2 EXCEPT !.cursor = c3])

\* The inner loop of handleClick over the file entries.
RECURSIVE clickFileFrom(_, _, _, _)
clickFileFrom(m, fileClickLine, fi, fileLine) ==
    IF fi >= Len(m.expandState.Files) THEN Result(m, NoCmd)
    ELSE IF fileLine = fileClickLine
    THEN Result([m EXCEPT !.expandState.FileIndex = fi], NoCmd)
    ELSE clickFileFrom(m, fileClickLine, fi + 1,
             fileLine + 1 + diffRowsBelow(m.expandState, m.expandState.Files[fi + 1]))

\* The outer loop of handleClick over the commits.
RECURSIVE clickFrom(_, _, _, _)
clickFrom(m, targetVisLine, i, visLine) ==
    IF i >= Len(m.commits) THEN Result(m, NoCmd)
    ELSE IF visLine = targetVisLine
    THEN IF m.cursor # i
         THEN emitSelectionChanged([collapseExpanded(m) EXCEPT !.cursor = i])
         ELSE Result(m, NoCmd)
    ELSE IF i = m.expandedIdx /\ m.expandState # NoExpand
    THEN LET expandLines == expandedLineCount(m)
             localLine   == targetVisLine - (visLine + 1)
             metaLines   == metadataLineCount(m)
         IN  IF targetVisLine > visLine /\ targetVisLine < visLine + 1 + expandLines
             THEN IF localLine < metaLines
                  THEN Result([m EXCEPT !.expandState.FileIndex = -1], NoCmd)
                  ELSE clickFileFrom(m, localLine - metaLines, 0, 0)
             ELSE clickFrom(m, targetVisLine, i + 1, visLine + 1 + expandLines)
    ELSE clickFrom(m, targetVisLine, i + 1, visLine + 1)

handleClick(m, y) == clickFrom(m, m.scrollOffset + y, 0, 0)

\* ToggleExpand that waits for the files: the commit is expanded with its
\* file list already in place.
ToggleExpand_WithFiles(m) ==
    IF isExpanded(m) /\ m.expandedIdx = m.cursor
    THEN Result(collapseExpanded(m), NoCmd)
    ELSE Result([m EXCEPT !.expandedIdx = m.cursor,
                          !.expandState =
                              [Files |-> FilesOf(m.commits[m.cursor + 1].Hash),
                               FileIndex |-> -1, ExpandedFile |-> "", DiffLines |-> <<>>]],
                LoadFilesCmd(m.commits[m.cursor + 1].Hash))

ToggleExpand(m) ==
    LET expandCurrent(m0) ==
            Result([m0 EXCEPT !.expandedIdx = m0.cursor,
                              !.expandState = [Files |-> <<>>, FileIndex |-> -1,
                                               ExpandedFile |-> "", DiffLines |-> <<>>]],
                   LoadFilesCmd(m0.commits[m0.cursor + 1].Hash))
    IN  IF isExpanded(m)
        THEN IF m.expandedIdx = m.cursor
             THEN LET es == m.expandState IN
                  IF es.FileIndex >= 0 /\ es.FileIndex < Len(es.Files)
                  THEN LET file == es.Files[es.FileIndex + 1] IN
                       IF es.ExpandedFile = file
                       THEN Result([m EXCEPT !.expandState.ExpandedFile = "",
                                             !.expandState.DiffLines = <<>>], NoCmd)
                       ELSE Result([m EXCEPT !.expandState.ExpandedFile = file,
                                             !.expandState.DiffLines = <<>>],
                                   LoadDiffCmd(m.commits[m.cursor + 1].Hash, file))
                  ELSE Result(collapseExpanded(m), NoCmd)
             ELSE expandCurrent(collapseExpanded(m))
        ELSE expandCurrent(m)

\* handleFilesLoaded without the comparison of the expanded commit's hash
\* with msg.Hash.
handleFilesLoaded_AnyHash(m, msg) ==
    IF m.expandedIdx < 0 \/ m.expandedIdx >= Len(m.commits) THEN Result(m, NoCmd)
    ELSE Result(ensureExpandedVisible(
             [m EXCEPT !.expandState.Files = msg.Files,
                       !.expandState.FileIndex = IF Len(msg.Files) > 0 THEN 0 ELSE @]), NoCmd)

handleFilesLoaded(m, msg) ==
    IF m.expandedIdx < 0 \/ m.expandedIdx >= Len(m.commits) THEN Result(m, NoCmd)
    ELSE IF m.commits[m.expandedIdx + 1].Hash # msg.Hash THEN Result(m, NoCmd)
    ELSE Result(ensureExpandedVisible(
             [m EXCEPT !.expandState.Files = msg.Files,
                       !.expandState.FileIndex = IF Len(msg.Files) > 0 THEN 0 ELSE @]), NoCmd)

\* handleFileDiffLoaded without the comparison of ExpandedFile with
\* msg.FilePath.
handleFileDiffLoaded_AnyPath(m, msg) ==
    IF m.expandState = NoExpand THEN Result(m, NoCmd)
    ELSE IF m.expandedIdx < 0 \/ m.expandedIdx >= Len(m.commits) THEN Result(m, NoCmd)
    ELSE IF m.commits[m.expandedIdx + 1].Hash # msg.Hash THEN Result(m, NoCmd)
    ELSE Result(clampScroll(
             [m EXCEPT !.expandState.DiffLines =
                         FormatDiffLines(msg.Diff, Max(20, Width - Max(1, MaxLanes(m.commits))))]),
             NoCmd)

handleFileDiffLoaded(m, msg) ==
    IF m.expandState = NoExpand THEN Result(m, NoCmd)
    ELSE IF m.expandedIdx < 0 \/ m.expandedIdx >= Len(m.commits) THEN Result(m, NoCmd)
    ELSE IF m.commits[m.expandedIdx + 1].Hash # msg.Hash
            \/ m.expandState.ExpandedFile # msg.FilePath
    THEN Result(m, NoCmd)
    ELSE LET gutterWidth == Max(1, MaxLanes(m.commits))
             diffWidth   == Max(20, Width - gutterWidth)
         IN  Result(clampScroll(
                 [m EXCEPT !.expandState.DiffLines = FormatDiffLines(msg.Diff, diffWidth)]), NoCmd)

\* 0-based index of the first commit with the given hash, -1 if none.
RECURSIVE indexOfHash(_, _, _)
indexOfHash(commitList, hash, i) ==
    IF i >= Len(commitList) THEN -1
    ELSE IF commitList[i + 1].Hash = hash THEN i
    ELSE indexOfHash(commitList, hash, i + 1)

\* preserveExpanded keeping the expansion of a commit that is gone.
preserveExpanded_Keep(m1, oldExpandedIdx, expandedHash) ==
    LET newExpandedIdx == IF expandedHash # "" THEN indexOfHash(m1.commits, expandedHash, 0) ELSE -1 IN
    [m |-> IF expandedHash = "" \/ newExpandedIdx < 0 THEN m1
           ELSE [m1 EXCEPT !.expandedIdx = newExpandedIdx],
     expandPreserved |-> expandedHash # "" /\ newExpandedIdx >= 0 /\ newExpandedIdx = oldExpandedIdx]

\* SetCommits, "Try to preserve the expanded commit": m1 is the model with
\* the new list and cursor, oldExpandedIdx / expandedHash what was expanded.
preserveExpanded(m1, oldExpandedIdx, expandedHash) ==
    LET newExpandedIdx == IF expandedHash # "" THEN indexOfHash(m1.commits, expandedHash, 0) ELSE -1 IN
    [m |-> IF expandedHash = "" THEN m1
           ELSE IF newExpandedIdx >= 0 THEN [m1 EXCEPT !.expandedIdx = newExpandedIdx]
           ELSE [m1 EXCEPT !.expandedIdx = -1, !.expandState = NoExpand],
     expandPreserved |-> expandedHash # "" /\ newExpandedIdx >= 0 /\ newExpandedIdx = oldExpandedIdx]

\* The last step of SetCommits always snapping to the cursor.
restoreScroll_Snap(m2, prevScroll, cursorPreserved, expandPreserved) ==
    ensureCursorVisible(m2)

\* SetCommits, the last step: keep the scroll offset or snap to the cursor.
restoreScroll(m2, prevScroll, cursorPreserved, expandPreserved) ==
    IF cursorPreserved /\ expandPreserved
    THEN clampScroll([m2 EXCEPT !.scrollOffset = prevScroll])
    ELSE ensureCursorVisible(m2)

SetCommits(m, commitList) ==
    LET prevHash     == IF m.cursor >= 0 /\ m.cursor < Len(m.commits)
                        THEN m.commits[m.cursor + 1].Hash ELSE ""
        expandedHash == IF m.expandedIdx >= 0 /\ m.expandedIdx < Len(m.commits)
                        THEN m.commits[m.expandedIdx + 1].Hash ELSE ""
        newCursor    == IF prevHash # "" THEN indexOfHash(commitList, prevHash, 0) ELSE -1
        cursorPreserved == newCursor >= 0 /\ newCursor = m.cursor
        cursor1      == IF newCursor >= 0 THEN newCursor
                        ELSE IF m.cursor >= Len(commitList)
                             THEN Max(0, Len(commitList) - 1)
                             ELSE m.cursor
        m1 == [m EXCEPT !.commits = commitList, !.cursor = cursor1, !.lastCursor = cursor1]
        p  == preserveExpanded(m1, m.expandedIdx, expandedHash)
    IN  restoreScroll(p.m, m.scrollOffset, cursorPreserved, p.expandPreserved)

\* renderExpandedContent: what each line below the expanded commit row is
\* (the metadata lines, then each file entry followed by its open diff).
RECURSIVE renderFilesFrom(_, _)
renderFilesFrom(es, fi) ==
    IF fi >= Len(es.Files) THEN <<>>
    ELSE << [kind |-> "file", index |-> fi] >>
         \o (IF es.Files[fi + 1] = es.ExpandedFile /\ Len(es.DiffLines) > 0
             THEN [d \in 1..Len(es.DiffLines) |-> [kind |-> "diff", index |-> d - 1]]
             ELSE <<>>)
         \o renderFilesFrom(es, fi + 1)

\* renderMetadata: one to three header lines and the "Changed files" line.
renderMetadata(commit) ==
    LET n == IF commit.Hash = UncommittedHash THEN 2
             ELSE IF commit.Refs > 0 THEN 4 ELSE 3
    IN  [j \in 1..n |-> [kind |-> "meta", index |-> j - 1]]

renderExpandedContent(m, commitIdx) ==
    IF m.expandState = NoExpand THEN <<>>
    ELSE renderMetadata(m.commits[commitIdx + 1]) \o renderFilesFrom(m.expandState, 0)

\* The loop of View: the line drawn for visual line v.
RECURSIVE viewLineFrom(_, _, _, _)
viewLineFrom(m, v, i, visLine) ==
    IF i >= Len(m.commits) THEN [kind |-> "blank", index |-> 0]
    ELSE IF visLine = v THEN [kind |-> "commit", index |-> i]
    ELSE IF i = m.expandedIdx /\ m.expandState # NoExpand
    THEN LET expandLines == renderExpandedContent(m, i) IN
         IF v - visLine <= Len(expandLines)
         THEN expandLines[v - visLine]
         ELSE viewLineFrom(m, v, i + 1, visLine + 1 + Len(expandLines))
    ELSE viewLineFrom(m, v, i + 1, visLine + 1)

\* View: what viewport row y shows.  View clamps the scroll offset of its
\* own copy of the model before it draws.
View(m, y) ==
    LET mv == clampScroll(m) IN viewLineFrom(mv, mv.scrollOffset + y, 0, 0)

\* ------------------------------------------------------------------------
\* The event loop: app.Model.Update around the graph panel
\* ------------------------------------------------------------------------

VARIABLES
    commits,        \* graphPanel.commits
    cursor,         \* graphPanel.cursor
    scrollOffset,   \* graphPanel.scrollOffset
    expandedIdx,    \* graphPanel.expandedIdx
    expandState,    \* graphPanel.expandState (NoExpand for nil)
    lastCursor,     \* graphPanel.lastCursor
    pendingFiles,   \* file-list commands whose FilesLoadedMsg has not arrived
    pendingDiffs,   \* diff commands whose FileDiffLoadedMsg has not arrived
    pendingCommits, \* loadCommitsCmd runs whose commitsLoadedMsg has not arrived
    pendingOps,     \* git operations whose operationResultMsg has not arrived
    last,           \* the event the loop handled last
    cmd,            \* the command the graph panel returned for it
    gb,             \* the GraphBuilder of a layout run
    row,            \* i of computeLayout's loop: the next vertex to place
    call,           \* a call of a function of the diff pipeline
    modals          \* app.Model's inline panels and the layout that holds them

panelVars == <<commits, cursor, scrollOffset, expandedIdx, expandState, lastCursor>>

pendingVars == <<pendingFiles, pendingDiffs, pendingCommits, pendingOps>>

\* The event loop's own variables, and those of the layout and diff runs.
loopVars == <<commits, cursor, scrollOffset, expandedIdx, expandState, lastCursor,
              pendingFiles, pendingDiffs, pendingCommits, pendingOps, last, cmd>>

layoutVars == <<gb, row>>

vars == <<commits, cursor, scrollOffset, expandedIdx, expandState, lastCursor,
          pendingFiles, pendingDiffs, pendingCommits, pendingOps, last, cmd,
          gb, row, call, modals>>

\* No call of a diff function is under way.
NoCall == [fn |-> "none"]

\* The inline panels are not followed.
NoPanels == [shown |-> "none"]

\* No layout is being computed, no diff function is being called and the
\* inline panels are not followed.
NoRun ==
    /\ gb = buildVertices(<<>>)
    /\ row = 0
    /\ call = NoCall
    /\ modals = NoPanels

\* The graph panel as the record the handlers work on.
Panel ==
    [commits |-> commits, cursor |-> cursor, scrollOffset |-> scrollOffset,
     expandedIdx |-> expandedIdx, expandState |-> expandState, lastCursor |-> lastCursor]

PendingCount ==
    Cardinality(BagToSet(pendingFiles)) + Cardinality(pendingDiffs)
        + Cardinality(pendingCommits) + Cardinality(pendingOps)

\* The panel takes the value a handler returned.
SetPanel(m) ==
    /\ commits' = m.commits
    /\ cursor' = m.cursor
    /\ scrollOffset' = m.scrollOffset
    /\ expandedIdx' = m.expandedIdx
    /\ expandState' = m.expandState
    /\ lastCursor' = m.lastCursor

\* A command joins those in flight.  At most MaxPending commands are
\* followed; one started beyond that stays in flight for the rest of the
\* run and its result is never delivered.
InFlight(pending, c) ==
    IF PendingCount < MaxPending THEN pending \cup {c} ELSE pending

\* A file-list command joins those in flight.  pendingFiles is a bag: the
\* runs of the working-tree command are counted, up to MaxCopies, because
\* each reads the working tree anew; a second run of the command of a
\* commit, whose files never change, is not followed.
FilesInFlight(pending, c) ==
    IF BagIn(c, pending)
    THEN IF c.hash = UncommittedHash /\ CopiesIn(c, pending) < MaxCopies
         THEN pending (+) SetToBag({c}) ELSE pending
    ELSE IF PendingCount < MaxPending THEN pending (+) SetToBag({c}) ELSE pending

\* The runtime runs the returned tea.Cmd off the loop; it is in flight until
\* its result message arrives.
Dispatch(c) ==
    CASE c.kind = "loadFiles" ->
            /\ pendingFiles' = FilesInFlight(pendingFiles, c)
            /\ UNCHANGED <<pendingDiffs, pendingCommits, pendingOps>>
      [] c.kind = "loadDiff" ->
            /\ pendingDiffs' = InFlight(pendingDiffs, c)
            /\ UNCHANGED <<pendingFiles, pendingCommits, pendingOps>>
      [] OTHER -> UNCHANGED pendingVars

\* The FilesLoadedMsg the command of ToggleExpand can end with: the files of
\* the commit or of the working tree, or the error of the git call.
FilesLoadedMsg(c) ==
    {[Hash |-> c.hash, Files |-> files, Err |-> FALSE] :
        files \in IF c.hash = UncommittedHash THEN WorkingTreeFiles ELSE {FilesOf(c.hash)}}
        \cup {[Hash |-> c.hash, Files |-> <<>>, Err |-> TRUE]}

\* The FileDiffLoadedMsg the command of ToggleExpand can end with.
FileDiffLoadedMsg(c) ==
    {[Hash |-> c.hash, FilePath |-> c.path, Diff |-> DiffOf(c.hash, c.path), Err |-> FALSE],
     [Hash |-> c.hash, FilePath |-> c.path, Diff |-> << <<>> >>, Err |-> TRUE]}

\* The commitsLoadedMsg loadCommitsCmd can end with: an error, or the list
\* with the working-tree row.
commitsLoadedMsg ==
    {[commits |-> l, err |-> FALSE] : l \in CommitLists}
        \cup {[commits |-> <<>>, err |-> TRUE]}

LoadCommitsCmd == [kind |-> "loadCommits"]

\* What an event leaves in last: its type and its argument.
Event(type, arg) == [type |-> type, arg |-> arg]

\* The panel after the first WindowSizeMsg (handleResize builds it with
\* graph.New from the commits of the repository).
Init ==
    /\ \E commitList \in CommitLists :
         LET m == New(commitList) IN
           /\ commits = m.commits
           /\ cursor = m.cursor
           /\ scrollOffset = m.scrollOffset
           /\ expandedIdx = m.expandedIdx
           /\ expandState = m.expandState
           /\ lastCursor = m.lastCursor
    /\ pendingFiles = EmptyBag
    /\ pendingDiffs = {}
    /\ pendingCommits = {}
    /\ pendingOps = {}
    /\ last = [type |-> "init"]
    /\ cmd = NoCmd
    /\ NoRun

\* The process runs until a handler panics.
Running == last.type # "panic"

\* One pass of the loop through the graph panel: the panel and the returned
\* command are taken over, the command is started.
Handle(r, ev) ==
    /\ Running
    /\ SetPanel(r.m)
    /\ cmd' = r.cmd
    /\ last' = ev
    /\ Dispatch(r.cmd)
    /\ UNCHANGED <<gb, row, call, modals>>

\* app.Model.handleKey, Enter: toggle expand on the selected commit / file.
appEnter(m) == ToggleExpand(m)

\* app.Model.handleKey, Esc: ToggleExpand when a commit is expanded; the
\* command it returns is dropped.
appEsc(m) ==
    IF isExpanded(m) THEN Result(ToggleExpand(m).m, NoCmd) ELSE Result(m, NoCmd)

\* ToggleExpand reads m.commits[m.cursor] on every path but the two that
\* close something; with the cursor outside the list that read panics.
toggleExpandPanics(m) ==
    /\ ~hasSelectedCommit(m)
    /\ ~(isExpanded(m) /\ m.expandedIdx = m.cursor)

KeyEnter ==
    IF toggleExpandPanics(Panel)
    THEN /\ Running
         /\ last' = Event("panic", "enter")
         /\ UNCHANGED <<panelVars, pendingVars, cmd, gb, row, call, modals>>
    ELSE Handle(appEnter(Panel), Event("key", "enter"))

KeyEsc == Handle(appEsc(Panel), Event("key", "esc"))

NavKeys == {"down", "up", "home", "end", "ctrl+d", "ctrl+u"}

\* All other keys go to the graph panel (graph.Model.handleKey).
KeyNav == \E key \in NavKeys : Handle(graphHandleKey(Panel, key), Event("key", key))

\* app.Model.handleMouse -> graph.Model.handleMouse
WheelUp == Handle(wheelUp(Panel), Event("wheel", "up"))

WheelDown == Handle(wheelDown(Panel), Event("wheel", "down"))

Click == \E y \in 0..(Height - 1) : Handle(handleClick(Panel, y), Event("click", y))

Operations == {"push", "pull", "fetch"}

\* pushCmd / pullCmd / fetchCmd.  The operation and the err of the
\* operationResultMsg only select the action bar text, so the command in
\* flight is kept without them.
OperationCmd == [kind |-> "operation"]

\* app.Model.handleKey, p / P / f: start the git operation.
GitOperation ==
    /\ Running
    /\ \E op \in Operations :
         /\ pendingOps' = InFlight(pendingOps, OperationCmd)
         /\ last' = Event("key", op)
    /\ cmd' = NoCmd
    /\ UNCHANGED <<panelVars, pendingFiles, pendingDiffs, pendingCommits, gb, row, call, modals>>

\* app.Model.handleOperationResult: whatever the outcome, reload the commits
\* (loadCommitsCmd).
OperationResult ==
    \E c \in pendingOps :
      /\ Running
      /\ pendingOps' = pendingOps \ {c}
      /\ pendingCommits' = pendingCommits \cup {LoadCommitsCmd}
      /\ last' = Event("operationResultMsg", c)
      /\ cmd' = NoCmd
      /\ UNCHANGED <<panelVars, pendingFiles, pendingDiffs, gb, row, call, modals>>

\* handleCommitsLoaded rebuilding the panel when the load failed.
handleCommitsLoaded_ResetOnError(m, msg) ==
    IF msg.err THEN New(m.commits)
    ELSE IF msg.commits # <<>> THEN New(msg.commits)
    ELSE m

\* app.Model.handleCommitsLoaded
handleCommitsLoaded(m, msg) ==
    IF msg.err THEN m
    ELSE IF msg.commits # <<>> THEN New(msg.commits)
    ELSE m

CommitsLoaded ==
    \E c \in pendingCommits, msg \in commitsLoadedMsg :
      /\ Running
      /\ pendingCommits' = pendingCommits \ {c}
      /\ SetPanel(handleCommitsLoaded(Panel, msg))
      /\ last' = Event("commitsLoadedMsg", msg)
      /\ cmd' = NoCmd
      /\ UNCHANGED <<pendingFiles, pendingDiffs, pendingOps, gb, row, call, modals>>

\* app.Model.Update, case graph.FilesLoadedMsg: an error is shown in the
\* action bar and the message is not forwarded to the panel.
appFilesLoaded(m, msg) ==
    IF msg.Err THEN Result(m, NoCmd) ELSE handleFilesLoaded(m, msg)

\* app.Model.Update, case graph.FileDiffLoadedMsg.
appFileDiffLoaded(m, msg) ==
    IF msg.Err THEN Result(m, NoCmd) ELSE handleFileDiffLoaded(m, msg)

\* A result handler's model and command are taken over.
Deliver(r, ev) ==
    /\ SetPanel(r.m)
    /\ cmd' = r.cmd
    /\ last' = ev
    /\ UNCHANGED <<gb, row, call, modals>>

FilesLoaded ==
    \E c \in BagToSet(pendingFiles) : \E msg \in FilesLoadedMsg(c) :
      /\ Running
      /\ pendingFiles' = pendingFiles (-) SetToBag({c})
      /\ Deliver(appFilesLoaded(Panel, msg), Event("FilesLoadedMsg", msg))
      /\ UNCHANGED <<pendingDiffs, pendingCommits, pendingOps>>

FileDiffLoaded ==
    \E c \in pendingDiffs : \E msg \in FileDiffLoadedMsg(c) :
      /\ Running
      /\ pendingDiffs' = pendingDiffs \ {c}
      /\ Deliver(appFileDiffLoaded(Panel, msg), Event("FileDiffLoadedMsg", msg))
      /\ UNCHANGED <<pendingFiles, pendingCommits, pendingOps>>

\* graph.Model.SetCommits called with a refreshed commit list; last keeps
\* the cursor and the expanded index the call found.
Refresh ==
    \E commitList \in CommitLists :
      /\ Running
      /\ SetPanel(SetCommits(Panel, commitList))
      /\ last' = [type |-> "SetCommits", arg |-> commitList,
                   before |-> [cursor |-> cursor, expandedIdx |-> expandedIdx]]
      /\ cmd' = NoCmd
      /\ UNCHANGED <<pendingVars, gb, row, call, modals>>

Next ==
    \/ KeyEnter
    \/ KeyEsc
    \/ KeyNav
    \/ WheelUp
    \/ WheelDown
    \/ Click
    \/ GitOperation
    \/ OperationResult
    \/ CommitsLoaded
    \/ FilesLoaded
    \/ FileDiffLoaded
    \/ Refresh

Spec == Init /\ [][Next]_vars

\* ------------------------------------------------------------------------
\* The layout run: graph.New -> NewGraphRenderer -> InitGraph, computeLayout
\* taken one row at a time
\* ------------------------------------------------------------------------

\* Most commits of a history, and most parents of a commit.
MaxCommits == 4

MaxParents == 2

\* The hash of the n-th commit of a history.
HashAt(n) == <<"a", "b", "c", "d", "e", "f", "g", "h", "i", "j", "k", "l", "m", "n">>[n]

\* Most commits of a linear history.
MaxChain == 8

\* A linear history of n commits, newest first: every commit has the next
\* one as its only parent, the last has none.
Chain(n) ==
    [k \in 1..n |-> Commit(HashAt(k), IF k < n THEN <<HashAt(k + 1)>> ELSE <<>>, 0)]

\* The parent lists a commit can have when the commits in from..n follow
\* it: up to MaxParents different later commits, in any order.
ParentLists(from, n) ==
    UNION {{ps \in [1..k -> {HashAt(j) : j \in from..n}] :
               \A a, b \in 1..k : a # b => ps[a] # ps[b]} : k \in 0..MaxParents}

\* The histories "git log --all --topo-order" can list from the i-th commit
\* on, n commits in all: every parent comes after its children.
RECURSIVE Histories(_, _)
Histories(i, n) ==
    IF i > n THEN {<<>>}
    ELSE {<<Commit(HashAt(i), ps, 0)>> \o rest :
             ps \in ParentLists(i + 1, n), rest \in Histories(i + 1, n)}

\* A history that takes the colour rotation once round before a merge: the
\* merge a and its side branch e, the merge b and its side branch f and the
\* root c use up the five colours, then the merge d follows.
PaletteRound ==
    << Commit("a", <<"d", "e">>, 0), Commit("b", <<"e", "f">>, 0),
       Commit("c", <<>>, 0),         Commit("d", <<"e", "g">>, 0),
       Commit("e", <<>>, 0),         Commit("f", <<>>, 0),
       Commit("g", <<>>, 0) >>

\* Most branch tips of a fan.
MaxFan == 11

\* A fan of n branch tips over one base commit, newest first: every tip has
\* the base, the last commit of the list, as its only parent.
Fan(n) ==
    [k \in 1..(n + 1) |-> Commit(HashAt(k), IF k <= n THEN <<HashAt(n + 1)>> ELSE <<>>, 0)]

\* The commit lists GetCommits can return: the first w commits of a history
\* (the limit cuts the list, parents beyond it are not in the list).
LayoutInputs ==
    {SubSeq(h, 1, w) : h \in Histories(1, MaxCommits), w \in 1..MaxCommits}
        \cup {Chain(n) : n \in 1..MaxChain}
        \cup {PaletteRound, Fan(MaxFan)}

\* The number of lane cells of a row: the tracked maximum, at least 1 and
\* at most 10.
numLanes(g) == IF g.maxLanes = 0 THEN 1 ELSE IF g.maxLanes > 10 THEN 10 ELSE g.maxLanes

\* RenderCommitLine's mergeTargetLanes: for each secondary parent of a merge
\* the first lane (0-based) of the post-snapshot that holds it, the lane of
\* the commit itself left out.
mergeTargetLanes(g, commitList, index) ==
    IF Len(commitList[index + 1].Parents) <= 1 THEN {}
    ELSE {lane \in 0..(Len(g.postLaneSnapshots[index + 1].lanes) - 1) :
             \E j \in 2..Len(g.parents[index + 1]) :
                /\ g.postLaneSnapshots[index + 1].lanes[lane + 1] = g.parents[index + 1][j]
                /\ lane # g.x[index + 1]
                /\ \A k \in 0..(lane - 1) :
                      \/ g.postLaneSnapshots[index + 1].lanes[k + 1] # g.parents[index + 1][j]
                      \/ k = g.x[index + 1]}

\* RenderCommitLine's convergeLanes: the lanes of the children that have the
\* commit as first parent and sit in another lane.
convergeLanes(g, index) ==
    {g.x[g.children[index + 1][k] + 1] : k \in
        {k \in 1..Len(g.children[index + 1]) :
            /\ isFirstParentOf(g, g.children[index + 1][k], index)
            /\ g.x[g.children[index + 1][k] + 1] # g.x[index + 1]}}

\* The span from the lane of the commit to the outermost of the target
\* lanes, as convergeMin / convergeMax and mergeMin / mergeMax hold it.
spanMin(targets, x) == CHOOSE a \in targets \cup {x} : \A b \in targets \cup {x} : a <= b

spanMax(targets, x) == CHOOSE a \in targets \cup {x} : \A b \in targets \cup {x} : b <= a

\* isBridging of RenderCommitLine for one lane.
isBridging(lane, x, converge, merge) ==
    IF converge # {} /\ lane >= spanMin(converge, x) /\ lane < spanMax(converge, x)
    THEN TRUE
    ELSE merge # {} /\ lane >= spanMin(merge, x) /\ lane < spanMax(merge, x)

\* The glyph RenderCommitLine puts in one lane cell; snapshot is the
\* pre-snapshot of the row.  Colours are left out.
commitCell(lane, x, uncommitted, snapshot, converge, merge) ==
    IF lane = x THEN (IF uncommitted THEN "uncommitted" ELSE "node")
    ELSE IF lane \in converge THEN (IF lane > x THEN "cornerBL" ELSE "cornerBR")
    ELSE IF lane \in merge THEN (IF lane > x THEN "cornerTL" ELSE "cornerTR")
    ELSE IF lane < Len(snapshot.lanes) /\ snapshot.lanes[lane + 1] # -1 THEN "vertical"
    ELSE IF isBridging(lane, x, converge, merge) THEN "horizontal"
    ELSE "blank"

\* RenderCommitLine: the lane cells of the row of a commit.
RenderCommitLine(g, commitList, index) ==
    [l \in 1..numLanes(g) |->
        commitCell(l - 1, g.x[index + 1], commitList[index + 1].Hash = UncommittedHash,
                   g.laneSnapshots[index + 1],
                   convergeLanes(g, index), mergeTargetLanes(g, commitList, index))]

\* A gutter with a line in every lane cell.
gutterCell_AllLines(postSnap, lane) == "vertical"

\* The glyph RenderLaneGutter puts in one lane cell.
gutterCell(postSnap, lane) ==
    IF lane < Len(postSnap.lanes) /\ postSnap.lanes[lane + 1] # -1
    THEN "vertical" ELSE "blank"

\* RenderLaneGutter: the lane cells beside the expanded content of a row.
RenderLaneGutter(g, index) ==
    [l \in 1..numLanes(g) |-> gutterCell(g.postLaneSnapshots[index + 1], l - 1)]

\* graph.New with a commit list: the panel, and the builder InitGraph hands
\* to computeLayout.
LayoutInit ==
    /\ \E commitList \in LayoutInputs :
         /\ commits = commitList
         /\ gb = buildVertices(commitList)
    /\ cursor = 0
    /\ scrollOffset = 0
    /\ expandedIdx = -1
    /\ expandState = NoExpand
    /\ lastCursor = 0
    /\ pendingFiles = EmptyBag
    /\ pendingDiffs = {}
    /\ pendingCommits = {}
    /\ pendingOps = {}
    /\ last = [type |-> "init"]
    /\ cmd = NoCmd
    /\ row = 0
    /\ call = NoCall
    /\ modals = NoPanels

\* One pass of the loop of computeLayout.
LayoutRow ==
    /\ row < Len(gb.parents)
    /\ gb' = layoutRow(gb, row)
    /\ row' = row + 1
    /\ UNCHANGED <<loopVars, call, modals>>

\* View draws the row of a commit with the finished layout.
CommitLineDrawn ==
    /\ row = Len(gb.parents)
    /\ \E index \in 0..(Len(commits) - 1) :
         call' = [fn |-> "RenderCommitLine", index |-> index,
                  cells |-> RenderCommitLine(gb, commits, index)]
    /\ UNCHANGED <<loopVars, layoutVars, modals>>

\* View draws the gutter beside the expanded content of a commit.
LaneGutterDrawn ==
    /\ row = Len(gb.parents)
    /\ \E index \in 0..(Len(commits) - 1) :
         call' = [fn |-> "RenderLaneGutter", index |-> index,
                  cells |-> RenderLaneGutter(gb, index)]
    /\ UNCHANGED <<loopVars, layoutVars, modals>>

LayoutNext ==
    \/ LayoutRow
    \/ CommitLineDrawn
    \/ LaneGutterDrawn

LayoutSpec == LayoutInit /\ [][LayoutNext]_vars

\* ------------------------------------------------------------------------
\* Properties
\* ------------------------------------------------------------------------

\* Hash of the commit under the cursor / of the expanded commit.
SelectedHash == commits[cursor + 1].Hash

ExpandedHash == commits[expandedIdx + 1].Hash

\* ev is the delivery of a load result that carries an error.
IsErrorResult(ev) ==
    \/ ev.type = "commitsLoadedMsg" /\ ev.arg.err
    \/ ev.type \in {"FilesLoadedMsg", "FileDiffLoadedMsg"} /\ ev.arg.Err

\* C1: a FilesLoadedMsg is applied only if a commit is expanded and its hash
\* is the hash of the message; delivered in any other situation (nothing
\* expanded, another commit expanded) it leaves the whole panel unchanged.
C1_StaleFilesDropped ==
    [][(/\ last'.type = "FilesLoadedMsg"
        /\ ~(isExpanded(Panel) /\ ExpandedHash = last'.arg.Hash))
       => UNCHANGED panelVars]_vars

\* A file list that was loaded without error arrived while another commit
\* was the expanded one.
C1_Witness ==
    /\ last.type = "FilesLoadedMsg"
    /\ ~last.arg.Err
    /\ isExpanded(Panel)
    /\ ExpandedHash # last.arg.Hash

\* C2: a FileDiffLoadedMsg is applied only if the expanded commit has the
\* hash of the message and ExpandedFile is the path of the message; in any
\* other situation DiffLines and the rest of the panel are unchanged.
C2_StaleDiffDropped ==
    [][(/\ last'.type = "FileDiffLoadedMsg"
        /\ ~(/\ isExpanded(Panel)
             /\ ExpandedHash = last'.arg.Hash
             /\ expandState.ExpandedFile = last'.arg.FilePath))
       => UNCHANGED panelVars]_vars

\* A diff that was loaded without error arrived for the expanded commit
\* after another file of it had been opened.
C2_Witness ==
    /\ last.type = "FileDiffLoadedMsg"
    /\ ~last.arg.Err
    /\ isExpanded(Panel)
    /\ ExpandedHash = last.arg.Hash
    /\ expandState.ExpandedFile # ""
    /\ expandState.ExpandedFile # last.arg.FilePath

\* C3: Esc while a commit is expanded collapses it from every sub-state:
\* afterwards nothing is expanded, the ExpandState is gone and no content
\* request is issued.
C3_EscCollapses ==
    [][(last'.type = "key" /\ last'.arg = "esc" /\ isExpanded(Panel))
       => (/\ expandedIdx' = -1
           /\ expandState' = NoExpand
           /\ cmd' = NoCmd
           /\ pendingVars' = pendingVars)]_vars

\* C4: after every transition 0 <= scrollOffset <= max(0, totalVisualLines -
\* height).
C4_ScrollInRange ==
    /\ 0 <= scrollOffset
    /\ scrollOffset <= Max(0, totalVisualLines(Panel) - Height)

\* C5: a SelectionChangedMsg is emitted only by an event that changes the
\* cursor's commit index; Enter, the load results, and Down / Up that stay
\* inside the expanded commit never emit it.
C5_SelectionOnlyOnRowChange ==
    [][/\ cmd'.kind = "selection" => cursor' # cursor
       /\ (\/ last'.type \in {"FilesLoadedMsg", "FileDiffLoadedMsg", "commitsLoadedMsg"}
           \/ last'.type = "key" /\ last'.arg = "enter"
           \/ /\ last'.type = "key" /\ last'.arg \in {"down", "up"}
              /\ isExpanded(Panel) /\ expandedIdx' >= 0)
          => cmd'.kind # "selection"]_vars

\* Down moved the file cursor from one file entry to the next inside the
\* expanded commit.
C5_Witness ==
    /\ last.type = "key" /\ last.arg = "down"
    /\ isExpanded(Panel)
    /\ expandState.FileIndex >= 1
    /\ cmd = NoCmd

\* The new list of a SetCommits step still holds the selected commit and,
\* if a commit is expanded, the expanded commit.
HashesSurvive ==
    /\ last'.type = "SetCommits"
    /\ hasSelectedCommit(Panel)
    /\ indexOfHash(commits', SelectedHash, 0) >= 0
    /\ isExpanded(Panel) => indexOfHash(commits', ExpandedHash, 0) >= 0

C7_VanishedHashesReset ==
    [][last'.type = "SetCommits" =>
        /\ (isExpanded(Panel) /\ indexOfHash(commits', ExpandedHash, 0) < 0)
              => (expandedIdx' = -1 /\ expandState' = NoExpand)
        /\ (hasSelectedCommit(Panel) /\ indexOfHash(commits', SelectedHash, 0) < 0)
              => cursor' = Max(0, Min(cursor, Len(commits') - 1))]_vars

\* SetCommits dropped the expanded commit: the expansion is gone and the
\* cursor was pulled back into the shorter list.
C7_Witness ==
    /\ last.type = "SetCommits"
    /\ last.before.expandedIdx >= 0
    /\ expandedIdx = -1
    /\ expandState = NoExpand
    /\ cursor < last.before.cursor
    /\ cursor = Len(commits) - 1

\* C8: when the commit list is reloaded after a git operation, the cursor
\* stays on the commit with the same hash, and an expanded commit whose
\* hash is still present stays expanded with its ExpandState intact.
C8_ReloadKeepsSelection ==
    [][(/\ last'.type = "commitsLoadedMsg"
        /\ ~last'.arg.err
        /\ hasSelectedCommit(Panel)
        /\ indexOfHash(commits', SelectedHash, 0) >= 0)
       => (/\ hasSelectedCommit(Panel')
           /\ commits'[cursor' + 1].Hash = SelectedHash
           /\ (isExpanded(Panel) /\ indexOfHash(commits', ExpandedHash, 0) >= 0)
                 => (/\ isExpanded(Panel')
                     /\ commits'[expandedIdx' + 1].Hash = ExpandedHash
                     /\ expandState' = expandState))]_vars

\* C9: a load result that carries an error changes neither the commit list
\* nor cursor, scrollOffset, expandedIdx or the ExpandState.
C9_ErrorResultsIgnored ==
    [][IsErrorResult(last') => UNCHANGED panelVars]_vars

\* A failed reload of the commits arrived while the cursor was below the
\* first row on an expanded commit.
C9_Witness ==
    /\ last.type = "commitsLoadedMsg"
    /\ last.arg.err
    /\ cursor > 0
    /\ isExpanded(Panel)

\* C10: a click on a viewport row that shows file entry K of the expanded
\* commit sets FileIndex to K, leaves cursor, expandedIdx, ExpandedFile,
\* DiffLines and scrollOffset unchanged and emits no selection-changed.
C10_ClickSelectsFile ==
    [][(/\ last'.type = "click"
        /\ isExpanded(Panel)
        /\ View(Panel, last'.arg).kind = "file")
       => (/\ isExpanded(Panel')
           /\ expandState'.FileIndex = View(Panel, last'.arg).index
           /\ expandState'.ExpandedFile = expandState.ExpandedFile
           /\ expandState'.DiffLines = expandState.DiffLines
           /\ cursor' = cursor
           /\ expandedIdx' = expandedIdx
           /\ scrollOffset' = scrollOffset
           /\ cmd'.kind # "selection")]_vars

\* ------------------------------------------------------------------------
\* The diff run: FormatDiffLines taken one stage at a time
\* ------------------------------------------------------------------------

\* Most lines of a diff text.
MaxRawLines == 5

\* The lines a diff text is made of: a removal, an addition, a context
\* line, a hunk header and the "\ No newline" note.
RawLines ==
    {<<"-", "x">>, <<"+", "y">>, <<" ", "c">>, SampleHunk, <<"\\", " ", "n">>}

\* A number below 100 as git prints it.
Decimal(n) ==
    LET digit(d) == <<"0", "1", "2", "3", "4", "5", "6", "7", "8", "9">>[d + 1]
    IN  IF n < 10 THEN <<digit(n)>> ELSE <<digit(n \div 10), digit(n % 10)>>

\* The forms of a hunk header: git leaves out a count of 1.
HunkForms == {"-a,b +c,d", "-a +c", "-a,b +c", "-a +c,d"}

\* The hunk header of the given form with old start a and new start c; a
\* count that is written is 2.
HunkHeader(form, a, c) ==
    <<"@", "@", " ", "-">> \o Decimal(a)
       \o (IF form \in {"-a,b +c,d", "-a,b +c"} THEN <<",", "2">> ELSE <<>>)
       \o <<" ", "+">> \o Decimal(c)
       \o (IF form \in {"-a,b +c,d", "-a +c,d"} THEN <<",", "2">> ELSE <<>>)
       \o <<" ", "@", "@">>

\* The start lines of the sample hunks.
HunkStarts == {3, 12}

\* Texts of two hunks of one line each, with headers of every form; the
\* lines include the removal of "--q" and the addition of "++q".
TwoHunkInputs ==
    {<<HunkHeader(f1, a1, c1), l1, HunkHeader(f2, a2, c2), l2>> :
        f1 \in HunkForms, a1 \in {3}, c1 \in HunkStarts,
        f2 \in HunkForms, a2 \in {12}, c2 \in HunkStarts,
        l1 \in {<<"-", "x">>, <<" ", "c">>, <<"-", "-", "-", "q">>},
        l2 \in {<<"+", "y">>, <<" ", "c">>, <<"+", "+", "+", "q">>}}

\* Most rows by which a long diff exceeds the cap of FormatDiffLines.
MaxOver == 2

\* A text of n context lines without a hunk header, and what parseDiffLines
\* and buildSideBySidePairs make of it: the lines are numbered from 0 on
\* both sides, and every line is a row of its own.
ContextText(n) == [k \in 1..n |-> <<" ", "c">>]

ContextLines(n) ==
    [k \in 1..n |-> [kind |-> " ", content |-> <<"c">>, oldNum |-> k - 1, newNum |-> k - 1]]

ContextPairs(n) ==
    [k \in 1..n |-> [leftNum |-> k - 1, leftText |-> <<"c">>, leftKind |-> " ",
                     rightNum |-> k - 1, rightText |-> <<"c">>, rightKind |-> " "]]

\* The lengths of the long texts: one row short of the cap of
\* FormatDiffLines up to MaxOver rows beyond it.
LongLengths == {maxDiffLines + over : over \in (0 - 1)..MaxOver}

\* The widths FormatDiffLines is called with.
DiffWidths == {20, 80}

\* The texts GetFileDiff can return, split at "\n"; the empty text is the
\* one empty line.
DiffInputs ==
    UNION {[1..n -> RawLines] : n \in 1..MaxRawLines}
       \cup TwoHunkInputs \cup {<< <<>> >>}

\* FormatDiffLines is called with a diff text; for the long texts the run
\* starts where the text has been parsed and paired.
DiffInit ==
    /\ \/ \E raw \in DiffInputs :
            call = [fn |-> "FormatDiffLines", stage |-> "raw", raw |-> raw,
                    dlines |-> <<>>, pairs |-> <<>>, rows |-> <<>>]
       \/ \E n \in LongLengths :
            call = [fn |-> "FormatDiffLines", stage |-> "paired", raw |-> ContextText(n),
                    dlines |-> ContextLines(n), pairs |-> ContextPairs(n), rows |-> <<>>]
    /\ commits = <<>>
    /\ cursor = 0
    /\ scrollOffset = 0
    /\ expandedIdx = -1
    /\ expandState = NoExpand
    /\ lastCursor = 0
    /\ pendingFiles = EmptyBag
    /\ pendingDiffs = {}
    /\ pendingCommits = {}
    /\ pendingOps = {}
    /\ last = [type |-> "init"]
    /\ cmd = NoCmd
    /\ gb = buildVertices(<<>>)
    /\ row = 0
    /\ modals = NoPanels

\* if diff == "" { return nil }
EmptyDiff ==
    /\ call.stage = "raw"
    /\ call.raw = << <<>> >>
    /\ call' = [call EXCEPT !.stage = "rendered", !.rows = <<>>]
    /\ UNCHANGED <<loopVars, layoutVars, modals>>

\* dlines := parseDiffLines(diff)
ParseDiffLines ==
    /\ call.stage = "raw"
    /\ call.raw # << <<>> >>
    /\ call' = [call EXCEPT !.stage = "parsed", !.dlines = parseDiffLines(call.raw)]
    /\ UNCHANGED <<loopVars, layoutVars, modals>>

\* pairs := buildSideBySidePairs(dlines)
BuildSideBySidePairs ==
    /\ call.stage = "parsed"
    /\ call' = [call EXCEPT !.stage = "paired", !.pairs = buildSideBySidePairs(call.dlines)]
    /\ UNCHANGED <<loopVars, layoutVars, modals>>

\* The rest of FormatDiffLines: one row per pair, then the cap.
RenderRows ==
    /\ call.stage = "paired"
    /\ \E maxWidth \in DiffWidths :
         call' = [call EXCEPT !.stage = "rendered", !.rows = formatPairs(call.pairs, maxWidth)]
    /\ UNCHANGED <<loopVars, layoutVars, modals>>

DiffNext ==
    \/ EmptyDiff
    \/ ParseDiffLines
    \/ BuildSideBySidePairs
    \/ RenderRows

DiffSpec == DiffInit /\ [][DiffNext]_vars

\* ------------------------------------------------------------------------
\* The inline panels: app.Model.Update with the commit input, the branch
\* picker and the help panel.  modals is the record of commitModal.visible
\* and its input value, helpModal.visible, branchModal's visible, branches
\* and cursor, layout.height and the height given to the graph panel.
\* ------------------------------------------------------------------------

\* Terminal heights a WindowSizeMsg reports.
TerminalHeights == {16, 24}

\* Rows of the help panel.  HelpModal.Height is called by recalcGraphSize;
\* its value is an input here, drawn from two sizes.
HelpRows == {6, 10}

\* Most characters followed in the commit input.
MaxMessage == 1

\* Branch lists GetBranches can report (git.Branch reduced to Name and
\* IsCurrent).
BranchLists ==
    {<< [Name |-> "main", IsCurrent |-> TRUE] >>,
     << [Name |-> "dev", IsCurrent |-> FALSE], [Name |-> "main", IsCurrent |-> TRUE] >>}

\* Keys: help, commit, branch, esc, enter, down, up and the space bar.
ModalKeys == {"?", "c", "b", "esc", "enter", "j", "k", " "}

\* The command of showBranchPickerCmd.
BranchPickerCmd == [kind |-> "branches"]

\* layout.CalculateWithExtra: the content height.
CalculateWithExtra(height, extraHeight) == Max(3, height - 1 - 2 - extraHeight)

\* commitModal.Height() + helpModal.Height() + branchModal.Height(): 3 rows
\* for the commit input, the rows of the help panel, 3 rows and one per
\* branch (1 to 10) for the branch picker; 0 for a hidden panel.
extraHeight(a) ==
    (IF a.commitVisible THEN 3 ELSE 0)
        + (IF a.helpVisible THEN a.helpRows ELSE 0)
        + (IF a.branchVisible THEN Max(1, Min(10, Len(a.branches))) + 3 ELSE 0)

\* recalcGraphSize: close the help panel if the graph would keep 3 rows or
\* fewer, then size the graph panel.
recalcGraphSize(a) ==
    LET sized(x) ==
            [x EXCEPT !.graphHeight = CalculateWithExtra(x.layoutHeight, extraHeight(x))]
    IN  IF CalculateWithExtra(a.layoutHeight, extraHeight(a)) <= 3 /\ a.helpVisible
        THEN sized([a EXCEPT !.helpVisible = FALSE])
        ELSE sized(a)

\* handleResize once ready: the graph panel gets layout.Calculate().
handleResize(a, height) ==
    [a EXCEPT !.layoutHeight = height, !.graphHeight = CalculateWithExtra(height, 0)]

\* strings.TrimSpace(message) == ""
IsBlank(message) == \A k \in 1..Len(message) : message[k] = " "

\* handleCommitModal: Esc hides, Enter commits a non-blank message, every
\* other key goes to the text input.
handleCommitModal(a, key) ==
    CASE key = "esc" ->
            Result(recalcGraphSize([a EXCEPT !.commitVisible = FALSE]), NoCmd)
      [] key = "enter" ->
            IF IsBlank(a.commitValue) THEN Result(a, NoCmd)
            ELSE Result(recalcGraphSize([a EXCEPT !.commitVisible = FALSE]),
                        [kind |-> "commit", message |-> a.commitValue])
      [] OTHER ->
            Result([a EXCEPT !.commitValue =
                        IF Len(@) < MaxMessage THEN Append(@, key) ELSE @], NoCmd)

\* BranchModal.Hide
branchModalHide(a) ==
    [a EXCEPT !.branchVisible = FALSE, !.branches = <<>>, !.branchCursor = 0]

\* BranchModal.Show: the cursor goes to the current branch.
branchModalShow(a, branches) ==
    [a EXCEPT !.branchVisible = TRUE, !.branches = branches,
              !.branchCursor =
                  IF \E k \in 1..Len(branches) : branches[k].IsCurrent
                  THEN (CHOOSE k \in 1..Len(branches) :
                            /\ branches[k].IsCurrent
                            /\ \A j \in 1..(k - 1) : ~branches[j].IsCurrent) - 1
                  ELSE 0]

handleBranchModal(a, key) ==
    CASE key \in {"esc", "b"} -> Result(recalcGraphSize(branchModalHide(a)), NoCmd)
      [] key = "j" ->
            Result([a EXCEPT !.branchCursor =
                        IF @ < Len(a.branches) - 1 THEN @ + 1 ELSE @], NoCmd)
      [] key = "k" ->
            Result([a EXCEPT !.branchCursor = IF @ > 0 THEN @ - 1 ELSE @], NoCmd)
      [] key = "enter" ->
            IF a.branchCursor >= Len(a.branches) \/ a.branches[a.branchCursor + 1].IsCurrent
            THEN Result(recalcGraphSize(branchModalHide(a)), NoCmd)
            ELSE Result(recalcGraphSize(branchModalHide(a)),
                        [kind |-> "checkout", branch |-> a.branches[a.branchCursor + 1].Name])
      [] OTHER -> Result(a, NoCmd)

\* app.Model.handleKey with no panel visible, as far as the panels go: help
\* toggles the help panel, commit shows the commit input, branch starts
\* showBranchPickerCmd; the other keys do not touch the panels.
handleKeyPanels(a, key) ==
    CASE key = "?" -> Result(recalcGraphSize([a EXCEPT !.helpVisible = ~@]), NoCmd)
      [] key = "c" ->
            Result(recalcGraphSize([a EXCEPT !.commitVisible = TRUE, !.commitValue = <<>>]),
                   NoCmd)
      [] key = "b" -> Result(a, BranchPickerCmd)
      [] OTHER -> Result(a, NoCmd)

\* app.Model.Update, case tea.KeyMsg: the key goes to the visible panel,
\* the commit input first, then the branch picker, then the help panel.
updateKeyMsg(a, key) ==
    IF a.commitVisible THEN handleCommitModal(a, key)
    ELSE IF a.branchVisible THEN handleBranchModal(a, key)
    ELSE IF a.helpVisible
    THEN IF key \in {"?", "esc"}
         THEN Result(recalcGraphSize([a EXCEPT !.helpVisible = ~@]), NoCmd)
         ELSE Result(a, NoCmd)
    ELSE handleKeyPanels(a, key)

\* What showBranchPickerCmd can end with: a branchesLoadedMsg with the
\* branches (none in an empty repository), or the operationResultMsg of a
\* failed GetBranches.
branchPickerResults ==
    {[type |-> "branchesLoadedMsg", branches |-> l] : l \in BranchLists \cup {<<>>}}
        \cup {[type |-> "operationResultMsg"]}

\* handleBranchesLoaded: show the picker unless there are no branches.
handleBranchesLoaded(a, msg) ==
    IF Len(msg.branches) = 0 THEN Result(a, NoCmd)
    ELSE Result(recalcGraphSize(branchModalShow(a, msg.branches)), NoCmd)

\* The panels after New and the first WindowSizeMsg.
ModalInit ==
    /\ \E height \in TerminalHeights, rows \in HelpRows :
         modals = [layoutHeight |-> height, helpRows |-> rows,
                   graphHeight |-> CalculateWithExtra(height, 0),
                   commitVisible |-> FALSE, commitValue |-> <<>>,
                   helpVisible |-> FALSE,
                   branchVisible |-> FALSE, branches |-> <<>>, branchCursor |-> 0]
    /\ commits = <<>>
    /\ cursor = 0
    /\ scrollOffset = 0
    /\ expandedIdx = -1
    /\ expandState = NoExpand
    /\ lastCursor = 0
    /\ pendingFiles = EmptyBag
    /\ pendingDiffs = {}
    /\ pendingCommits = {}
    /\ pendingOps = {}
    /\ last = [type |-> "init"]
    /\ cmd = NoCmd
    /\ gb = buildVertices(<<>>)
    /\ row = 0
    /\ call = NoCall

\* A key event; the branch picker command it returns is started.
ModalKey ==
    \E key \in ModalKeys :
      /\ modals' = updateKeyMsg(modals, key).m
      /\ cmd' = updateKeyMsg(modals, key).cmd
      /\ last' = Event("key", key)
      /\ pendingOps' = IF updateKeyMsg(modals, key).cmd = BranchPickerCmd
                       THEN InFlight(pendingOps, BranchPickerCmd) ELSE pendingOps
      /\ UNCHANGED <<panelVars, pendingFiles, pendingDiffs, pendingCommits, gb, row, call>>

\* The result of showBranchPickerCmd arrives.
BranchesLoaded ==
    \E c \in pendingOps, msg \in branchPickerResults :
      /\ pendingOps' = pendingOps \ {c}
      /\ IF msg.type = "branchesLoadedMsg"
         THEN modals' = handleBranchesLoaded(modals, msg).m /\ cmd' = NoCmd
         ELSE modals' = modals /\ cmd' = LoadCommitsCmd
      /\ last' = Event(msg.type, msg)
      /\ UNCHANGED <<panelVars, pendingFiles, pendingDiffs, pendingCommits, gb, row, call>>

\* A later WindowSizeMsg.
Resize ==
    \E height \in TerminalHeights :
      /\ modals' = handleResize(modals, height)
      /\ cmd' = NoCmd
      /\ last' = Event("WindowSizeMsg", height)
      /\ UNCHANGED <<panelVars, pendingVars, gb, row, call>>

ModalNext ==
    \/ ModalKey
    \/ BranchesLoaded
    \/ Resize

ModalSpec == ModalInit /\ [][ModalNext]_vars

\* Enter is about to be handled with the cursor on a commit row that is not
\* the expanded one.
EnterOnCollapsedRow ==
    /\ last'.type = "key" /\ last'.arg = "enter"
    /\ ~(isExpanded(Panel) /\ expandedIdx = cursor)

\* The step puts files into the file list of the expanded commit.
FilesAppear ==
    /\ expandedIdx' >= 0
    /\ expandState' # NoExpand
    /\ expandState'.Files # <<>>
    /\ (expandState = NoExpand \/ expandState.Files # expandState'.Files)

\* C16: Enter on a collapsed commit row expands that row at once with an
\* empty file list and FileIndex -1 and returns one file-list request for
\* the hash of that commit; files get into the list only by the delivery of
\* a FilesLoadedMsg with the hash of the expanded commit, which puts the
\* file cursor on the first file.
C16_EnterExpandsThenFilesLoad ==
    [][/\ EnterOnCollapsedRow =>
            /\ cursor' = cursor
            /\ expandedIdx' = cursor
            /\ expandState' = [Files |-> <<>>, FileIndex |-> -1,
                               ExpandedFile |-> "", DiffLines |-> <<>>]
            /\ cmd' = LoadFilesCmd(commits[cursor + 1].Hash)
       /\ FilesAppear =>
            /\ last'.type = "FilesLoadedMsg"
            /\ last'.arg.Hash = commits'[expandedIdx' + 1].Hash
            /\ expandState'.Files = last'.arg.Files
            /\ expandState'.FileIndex = 0]_vars

\* The files of a commit that Enter expanded have arrived: the file cursor
\* is on the first of them.
C16_Witness ==
    /\ last.type = "FilesLoadedMsg"
    /\ isExpanded(Panel)
    /\ ExpandedHash = last.arg.Hash
    /\ Len(expandState.Files) > 1
    /\ expandState.FileIndex = 0

\* Enter is about to be handled with the file cursor on a file entry of the
\* expanded commit.
EnterOnFileEntry ==
    /\ last'.type = "key" /\ last'.arg = "enter"
    /\ isExpanded(Panel) /\ expandedIdx = cursor
    /\ expandState.FileIndex >= 0
    /\ expandState.FileIndex < Len(expandState.Files)

\* The path of the file entry under the file cursor.
FileUnderCursor == expandState.Files[expandState.FileIndex + 1]

\* C17: Enter on a file entry whose diff is the open one closes the diff
\* (ExpandedFile cleared, DiffLines emptied) and returns no request; on any
\* other file entry it makes that file the ExpandedFile, empties DiffLines
\* and returns one diff request for the hash of the commit and the path of
\* the file.  The commit stays expanded with the file cursor where it was.
C17_EnterTogglesFileDiff ==
    [][EnterOnFileEntry =>
         /\ cursor' = cursor /\ expandedIdx' = expandedIdx
         /\ expandState'.Files = expandState.Files
         /\ expandState'.FileIndex = expandState.FileIndex
         /\ expandState'.DiffLines = <<>>
         /\ IF expandState.ExpandedFile = FileUnderCursor
            THEN expandState'.ExpandedFile = "" /\ cmd' = NoCmd
            ELSE /\ expandState'.ExpandedFile = FileUnderCursor
                 /\ cmd' = [kind |-> "loadDiff", hash |-> ExpandedHash,
                            path |-> FileUnderCursor]]_vars

\* Enter on the second file entry of the expanded commit asked for the diff
\* of that file.
C17_Witness ==
    /\ last.type = "key" /\ last.arg = "enter"
    /\ isExpanded(Panel)
    /\ expandState.FileIndex = 1
    /\ expandState.ExpandedFile = expandState.Files[2]
    /\ cmd.kind = "loadDiff"

\* A file diff is open: a file is the ExpandedFile and its diff has lines.
DiffOpen ==
    /\ isExpanded(Panel)
    /\ expandState.ExpandedFile # ""
    /\ Len(expandState.DiffLines) > 0

\* 0-based position of the ExpandedFile among the files of the commit.
OpenFileIndex ==
    (CHOOSE k \in 1..Len(expandState.Files) :
        expandState.Files[k] = expandState.ExpandedFile) - 1

\* Visual line of the last line of the open diff: the commit rows down to
\* the expanded one, its metadata, the file entries down to the open file,
\* then the diff.
LastDiffLine ==
    expandedIdx + metadataLineCount(Panel) + 1 + OpenFileIndex
        + Len(expandState.DiffLines)

\* Down is about to be handled while a file diff is open.
DownOnOpenDiff == last'.type = "key" /\ last'.arg = "down" /\ DiffOpen

\* C18: Down with a file diff open scrolls the viewport by one line and
\* changes nothing else while lines of the diff remain below the viewport;
\* once the last diff line is visible it closes the diff and moves the file
\* cursor to the next file or, from the last file, collapses the commit and
\* moves the cursor to the next commit, returning selection-changed.
C18_DownThroughDiff ==
    [][DownOnOpenDiff =>
         IF LastDiffLine >= scrollOffset + Height
         THEN /\ scrollOffset' = scrollOffset + 1
              /\ UNCHANGED <<commits, cursor, expandedIdx, expandState>>
              /\ cmd' = NoCmd
         ELSE IF expandState.FileIndex < Len(expandState.Files) - 1
         THEN /\ expandState' = [expandState EXCEPT !.ExpandedFile = "", !.DiffLines = <<>>,
                                                    !.FileIndex = @ + 1]
              /\ UNCHANGED <<commits, cursor, expandedIdx>>
              /\ cmd' = NoCmd
         ELSE /\ expandedIdx' = -1 /\ expandState' = NoExpand
              /\ IF cursor < Len(commits) - 1
                 THEN cursor' = cursor + 1 /\ cmd' = SelectionCmd(commits[cursor + 2])
                 ELSE cursor' = cursor /\ cmd' = NoCmd]_vars

\* C19: Down never leaves the whole panel unchanged while the cursor is not
\* on the last commit row, so that Down alone walks from any state to the
\* last commit row with nothing expanded.
C19_DownNeverStuck ==
    [][(/\ last'.type = "key" /\ last'.arg = "down"
        /\ Len(commits) > 0
        /\ cursor # Len(commits) - 1)
       => ~UNCHANGED panelVars]_vars

\* s clamped into the range of scroll offsets of the collapsed list.
ClampedToList(s) == Max(0, Min(s, Max(0, Len(commits) - Height)))

\* C20: after a mouse-wheel event no commit is expanded, scrollOffset has
\* moved by 3 lines in the direction of the wheel and is clamped into its
\* range, and the cursor is a commit index inside the viewport.
C20_WheelScrollsAndClamps ==
    [][last'.type = "wheel" =>
         /\ expandedIdx' = -1 /\ expandState' = NoExpand
         /\ scrollOffset' =
               ClampedToList(scrollOffset + IF last'.arg = "down" THEN 3 ELSE -3)
         /\ cursor' >= 0 /\ cursor' < Len(commits)
         /\ cursor' >= scrollOffset' /\ cursor' <= scrollOffset' + Height - 1]_vars

\* c clamped into the commit indices 0 .. len(commits) - 1.
ClampedToCommits(c) == Max(0, Min(c, Len(commits) - 1))

\* C21: Home, End, PageUp (ctrl+u) and PageDown (ctrl+d) always leave the
\* panel with nothing expanded and move the cursor in whole commit rows: to
\* 0, to len(commits) - 1, or by height / 2 rows clamped into
\* 0 .. len(commits) - 1.
C21_PageKeysMoveWholeRows ==
    [][(last'.type = "key" /\ last'.arg \in {"home", "end", "ctrl+d", "ctrl+u"}) =>
         /\ expandedIdx' = -1 /\ expandState' = NoExpand
         /\ cursor' = CASE last'.arg = "home"   -> 0
                        [] last'.arg = "end"    -> Len(commits) - 1
                        [] last'.arg = "ctrl+d" -> ClampedToCommits(cursor + (Height \div 2))
                        [] last'.arg = "ctrl+u" -> ClampedToCommits(cursor - (Height \div 2))]_vars

\* C22: for a non-empty commit list, after every key, mouse or result event
\* and after SetCommits, 0 <= cursor < len(commits), so that SelectedCommit
\* is never nil and Enter (ToggleExpand) never indexes the commit list out
\* of range.
C22_CursorOnCommit ==
    Len(commits) > 0 =>
        /\ 0 <= cursor /\ cursor < Len(commits)
        /\ hasSelectedCommit(Panel)
        /\ last.type # "panic"

\* C23: in every reachable ExpandState -1 <= FileIndex <= len(Files) - 1,
\* also after a late or repeated FilesLoadedMsg for the same hash whose file
\* list differs from the one already shown.
C23_FileIndexInRange ==
    expandState # NoExpand =>
        /\ -1 <= expandState.FileIndex
        /\ expandState.FileIndex <= Len(expandState.Files) - 1

\* C24: whenever a file diff is open (ExpandedFile non-empty and DiffLines
\* non-empty) the file cursor is on that file, Files[FileIndex].Path =
\* ExpandedFile, under every interleaving of Down / Up, clicks and delayed
\* FileDiffLoadedMsg / FilesLoadedMsg deliveries.
C24_FileCursorOnOpenDiff ==
    DiffOpen =>
        /\ expandState.FileIndex >= 0
        /\ expandState.FileIndex < Len(expandState.Files)
        /\ expandState.Files[expandState.FileIndex + 1] = expandState.ExpandedFile

\* C25: expandedIdx >= 0 exactly when an ExpandState exists, and a commit
\* that is expanded is the one under the cursor (expandedIdx = cursor), after
\* every event and after SetCommits on lists with distinct hashes.
C25_ExpandedIsCursorCommit ==
    /\ expandedIdx >= 0 <=> expandState # NoExpand
    /\ expandedIdx >= 0 => expandedIdx = cursor

\* SetCommits found the expanded commit at another index of the new list and
\* moved the cursor and the expansion there together.
C25_Witness ==
    /\ last.type = "SetCommits"
    /\ expandedIdx >= 0
    /\ last.before.expandedIdx >= 0
    /\ expandedIdx # last.before.expandedIdx
    /\ expandState # NoExpand
    /\ Len(expandState.Files) > 0

\* C26: after every input event (key, wheel, click) lastCursor = cursor, and
\* the event returns a SelectionChangedMsg command exactly when it changed
\* the cursor to a different valid commit index; the message carries the
\* commit at the new cursor.
C26_SelectionTracksCursor ==
    [][last'.type \in {"key", "wheel", "click"} =>
         /\ lastCursor' = cursor'
         /\ cmd'.kind = "selection"
               <=> (cursor' # cursor /\ cursor' >= 0 /\ cursor' < Len(commits'))
         /\ cmd'.kind = "selection" => cmd' = SelectionCmd(commits'[cursor' + 1])]_vars

\* A click on another commit row moved the cursor there and returned the
\* selection of that commit.
C26_Witness ==
    /\ last.type = "click"
    /\ cursor > 0
    /\ lastCursor = cursor
    /\ cmd = SelectionCmd(commits[cursor + 1])

\* The panel a click left behind has selected the line drawn: the cursor is
\* on the commit row drawn, or the file cursor is on the file entry drawn.
ClickHits(drawn, after) ==
    CASE drawn.kind = "commit" -> after.cursor = drawn.index
      [] drawn.kind = "file"   -> /\ after.expandState # NoExpand
                                  /\ after.expandState.FileIndex = drawn.index
      [] OTHER                 -> TRUE

\* C27: in every reachable state and for every viewport row y, a click on y
\* (handleClick) targets the commit row or file entry that View draws at row
\* y: both map y to the visual line scrollOffset + y with the same scroll
\* offset and the same line counts per commit.
C27_ClickTargetsDrawnRow ==
    \A y \in 0..(Height - 1) : ClickHits(View(Panel, y), handleClick(Panel, y).m)

\* ------------------------------------------------------------------------
\* Properties of the lane layout (LayoutSpec)
\* ------------------------------------------------------------------------

\* The commit list is a linear chain listed newest first.
IsChain(commitList) ==
    \A k \in 1..Len(commitList) :
       commitList[k].Parents =
          IF k < Len(commitList) THEN <<commitList[k + 1].Hash>> ELSE <<>>

\* C11: for a linear chain of commits listed newest first, every vertex
\* computeLayout has placed is in lane 0 and has the colour of the first.
C11_ChainInLaneZero ==
    IsChain(commits) =>
       \A v \in 1..row : gb.x[v] = 0 /\ gb.color[v] = gb.color[1]

\* The layout of a chain of more than five commits is complete.
C11_Witness ==
    /\ IsChain(commits)
    /\ Len(commits) > 5
    /\ row = Len(commits)

\* The lane table computeLayout holds when it comes to vertex c: empty for
\* the first vertex, else the trimmed table of the row before.
lanesBefore(c) == IF c = 0 THEN <<>> ELSE gb.postLaneSnapshots[c].lanes

occupiesLane(lanes, v) == \E l \in 1..Len(lanes) : lanes[l] = v

\* Vertex c is a placed merge commit with two parents in the list, neither
\* of which occupied a lane when c was placed, and both parents have been
\* placed as well.
IsFreshMerge(c) ==
    /\ c < row
    /\ Len(gb.parents[c + 1]) = 2
    /\ ~occupiesLane(lanesBefore(c), gb.parents[c + 1][1])
    /\ ~occupiesLane(lanesBefore(c), gb.parents[c + 1][2])
    /\ gb.parents[c + 1][1] < row
    /\ gb.parents[c + 1][2] < row

\* Vertices a and b are in different lanes and have different colours.
Apart(a, b) == gb.x[a + 1] # gb.x[b + 1] /\ gb.color[a + 1] # gb.color[b + 1]

\* C12: the two parents A and B of a merge commit C, neither in a lane when
\* C is placed, end up in two different lanes with two different colours,
\* and neither has the lane or the colour of C.
C12_MergeParentsApart ==
    \A c \in 0..(Len(gb.parents) - 1) :
       IsFreshMerge(c) =>
          /\ Apart(gb.parents[c + 1][1], gb.parents[c + 1][2])
          /\ Apart(gb.parents[c + 1][1], c)
          /\ Apart(gb.parents[c + 1][2], c)

\* A lane table of minimal width: empty, or its last slot is occupied.
Minimal(lanes) == Len(lanes) = 0 \/ lanes[Len(lanes)] # -1

\* Every occupied lane of the table before is the same lane of the table
\* after.
KeepsOccupied(before, after) ==
    \A l \in 1..Len(before) :
       before[l] # -1 => l <= Len(after) /\ after[l] = before[l]

\* C13: after each row of computeLayout the trimmed lane table, which is the
\* row's post-snapshot, is empty or ends in an occupied slot, and it holds
\* every lane that was occupied before the trimming.
C13_TrimKeepsOccupiedLanes ==
    [][row' = row + 1 =>
         /\ gb'.postLaneSnapshots[row'].lanes = gb'.lanes
         /\ Minimal(gb'.lanes)
         /\ KeepsOccupied(untrimmedRow(gb, row).lanes, gb'.lanes)]_vars

\* The trimming of the last row cut the table and left a lane occupied.
C13_Witness ==
    /\ row > 0
    /\ Len(gb.postLaneSnapshots[row].lanes) > 0
    /\ Len(gb.postLaneSnapshots[row].lanes) < Len(gb.laneSnapshots[row].lanes)

\* C14: every lane snapshot of every row, the pre-snapshot as well as the
\* post-snapshot, is empty or ends in an occupied lane.
C14_SnapshotsMinimal ==
    \A r \in 1..row :
       /\ Minimal(gb.laneSnapshots[r].lanes)
       /\ Minimal(gb.postLaneSnapshots[r].lanes)

\* The children that can donate their lane to vertex i in step 1: placed,
\* with i as first parent, and no secondary parent of any merge.
Donors(i) ==
    {c \in 0..(Len(gb.parents) - 1) :
        /\ \E k \in 1..Len(gb.children[i + 1]) : gb.children[i + 1][k] = c
        /\ gb.x[c + 1] >= 0
        /\ Len(gb.parents[c + 1]) > 0
        /\ gb.parents[c + 1][1] = i
        /\ \A u \in 1..Len(gb.parents) :
              \A j \in 2..Len(gb.parents[u]) : gb.parents[u][j] # c}

\* C29: a vertex with at least one placed child whose first parent it is and
\* which is no secondary parent of any merge is placed in the smallest lane
\* among those children, with the colour of the child in that lane.
C29_InheritsLeftmostChild ==
    [][(row' = row + 1 /\ Donors(row) # {}) =>
         /\ \E d \in Donors(row) : gb'.x[row + 1] = gb.x[d + 1]
         /\ \A d \in Donors(row) :
               /\ gb'.x[row + 1] <= gb.x[d + 1]
               /\ gb.x[d + 1] = gb'.x[row + 1] =>
                     gb'.color[row + 1] = gb.color[d + 1]]_vars

\* The last vertex placed had two children to inherit from, in different
\* lanes, and took the lane of the one appended second.
C29_Witness ==
    /\ row > 0
    /\ \E c, d \in 0..(row - 2) :
          /\ c < d
          /\ Len(gb.parents[c + 1]) > 0 /\ gb.parents[c + 1][1] = row - 1
          /\ Len(gb.parents[d + 1]) > 0 /\ gb.parents[d + 1][1] = row - 1
          /\ ~isMergeTarget(gb.parents, c)
          /\ ~isMergeTarget(gb.parents, d)
          /\ gb.x[d + 1] < gb.x[c + 1]
          /\ gb.x[row] = gb.x[d + 1]

\* Lane l (0-based) of the table holds a reservation for vertex i.
ReservedFor(i, l) == l < Len(gb.lanes) /\ gb.lanes[l + 1] = i

\* The reservation of lane l for i came from a merge-target child: a child
\* in lane l with i as first parent that is a secondary parent of a merge.
FromMergeTarget(i, l) ==
    \E c \in 0..(Len(gb.parents) - 1) :
       /\ \E k \in 1..Len(gb.children[i + 1]) : gb.children[i + 1][k] = c
       /\ gb.x[c + 1] = l
       /\ Len(gb.parents[c + 1]) > 0
       /\ gb.parents[c + 1][1] = i
       /\ \E u \in 1..Len(gb.parents) :
             \E j \in 2..Len(gb.parents[u]) : gb.parents[u][j] = c

\* The lanes reserved for i by something other than a merge-target child.
UsableReservations(i) ==
    {l \in 0..(Len(gb.lanes) - 1) : ReservedFor(i, l) /\ ~FromMergeTarget(i, l)}

\* C30: a vertex without a donor child for which some lane holds a
\* reservation that did not come from a merge-target child is placed in such
\* a lane with the colour of that lane; with reservations from merge-target
\* children only it is placed in a free lane.
C30_ReusesReservation ==
    [][(row' = row + 1 /\ Donors(row) = {}) =>
         /\ UsableReservations(row) # {} =>
               /\ gb'.x[row + 1] \in UsableReservations(row)
               /\ gb'.color[row + 1] = gb.laneColors[gb'.x[row + 1] + 1]
         /\ UsableReservations(row) = {} =>
               ~ReservedFor(row, gb'.x[row + 1])]_vars

\* The lane table of row i after step 6 of computeLayout, taken from the
\* row's pre-snapshot: the lane of i handed to its first parent, or freed.
AfterHandoff(g, i) ==
    [l \in 1..Len(g.laneSnapshots[i + 1].lanes) |->
        IF l = g.x[i + 1] + 1
        THEN (IF Len(g.parents[i + 1]) > 0 THEN g.parents[i + 1][1] ELSE -1)
        ELSE g.laneSnapshots[i + 1].lanes[l]]

\* The lanes (1-based) of a lane table that hold vertex v.
LanesOf(lanes, v) == {l \in 1..Len(lanes) : lanes[l] = v}

\* Secondary parent p of the merge i got one new lane l in the row of i: the
\* lane was free after the handoff, no lower lane is free afterwards, and
\* its colour is another than the colour of i.
NewMergeLane(g, i, p, l) ==
    /\ LanesOf(g.postLaneSnapshots[i + 1].lanes, p) = {l}
    /\ l > Len(AfterHandoff(g, i)) \/ AfterHandoff(g, i)[l] = -1
    /\ \A k \in 1..(l - 1) : g.postLaneSnapshots[i + 1].lanes[k] # -1
    /\ g.postLaneSnapshots[i + 1].laneColors[l] # g.color[i + 1]

\* C31: at a merge row every secondary parent that occupies no lane yet is
\* given the lowest free lane and a colour that differs from the colour of
\* the merge commit; a secondary parent that occupies a lane already keeps
\* its lanes and gets no other.
C31_MergeLanesReserved ==
    [][row' = row + 1 =>
         \A j \in 2..Len(gb.parents[row + 1]) :
            IF LanesOf(AfterHandoff(gb', row), gb.parents[row + 1][j]) = {}
            THEN \E l \in 1..Len(gb'.postLaneSnapshots[row + 1].lanes) :
                    NewMergeLane(gb', row, gb.parents[row + 1][j], l)
            ELSE LanesOf(gb'.postLaneSnapshots[row + 1].lanes, gb.parents[row + 1][j])
                    = LanesOf(AfterHandoff(gb', row), gb.parents[row + 1][j])]_vars

\* The tracked maximum covers the lane of every vertex and the width of
\* every pre-snapshot.
TracksEveryLane ==
    \A v \in 1..row :
       /\ gb.maxLanes >= gb.x[v] + 1
       /\ gb.maxLanes >= Len(gb.laneSnapshots[v].lanes)

\* The lane cells (1-based) of a drawn commit row that hold a commit node.
NodeCells == {l \in 1..Len(call.cells) : call.cells[l] \in {"node", "uncommitted"}}

\* C32: with the layout finished the tracked maximum lane count is at least
\* lane + 1 for the lane of every vertex and at least the width of every
\* pre-snapshot, and the row of every commit whose lane is below the cap of
\* 10 is drawn with exactly one commit node glyph, in that lane.
C32_OneNodePerRow ==
    row = Len(gb.parents) =>
       /\ TracksEveryLane
       /\ (call.fn = "RenderCommitLine" /\ gb.x[call.index + 1] < 10) =>
             NodeCells = {gb.x[call.index + 1] + 1}

\* The positions (1-based) in the parent list of commit i of the parents
\* that are in the loaded window.
InWindow(i) ==
    {j \in 1..Len(commits[i + 1].Parents) :
        \E c \in 1..Len(commits) : commits[c].Hash = commits[i + 1].Parents[j]}

\* The vertex of the first parent of commit i that is in the window.
FirstInWindowParent(i) ==
    (CHOOSE c \in 1..Len(commits) :
        commits[c].Hash =
           commits[i + 1].Parents[CHOOSE j \in InWindow(i) : \A k \in InWindow(i) : j <= k]) - 1

\* Lane l (0-based) of a snapshot is empty: free, or cut off by the trimming.
EmptyLane(snap, l) == l >= Len(snap.lanes) \/ snap.lanes[l + 1] = -1

\* C33: in the post-snapshot of every row the lane of the row's commit holds
\* the first parent of the commit that is in the window, with the colour of
\* the commit, and is empty if the commit has no parent in the window.
C33_LaneHandedToFirstParent ==
    \A i \in 0..(row - 1) :
       IF InWindow(i) = {}
       THEN EmptyLane(gb.postLaneSnapshots[i + 1], gb.x[i + 1])
       ELSE /\ gb.x[i + 1] < Len(gb.postLaneSnapshots[i + 1].lanes)
            /\ gb.postLaneSnapshots[i + 1].lanes[gb.x[i + 1] + 1] = FirstInWindowParent(i)
            /\ gb.postLaneSnapshots[i + 1].laneColors[gb.x[i + 1] + 1] = gb.color[i + 1]

\* The layout is finished for a list with a commit whose first parent is
\* cut off by the window while a later parent is in it, and with a commit
\* in lane 1 or beyond that has no parent in the window.
C33_Witness ==
    /\ row = Len(commits)
    /\ \E i \in 0..(row - 1) : InWindow(i) # {} /\ 1 \notin InWindow(i)
    /\ \E i \in 0..(row - 1) : InWindow(i) = {} /\ gb.x[i + 1] > 0

\* C34: in the pre-snapshot of a row its vertex occupies exactly one lane,
\* the lane it was assigned; every other lane that held the vertex before
\* the row is empty there already, and the steps after the snapshot leave
\* every other occupied lane of the pre-snapshot as it is (the freeing of
\* convergence lanes finds nothing to free).
C34_OneLaneInPreSnapshot ==
    [][row' = row + 1 =>
         /\ LanesOf(gb'.laneSnapshots[row + 1].lanes, row) = {gb'.x[row + 1] + 1}
         /\ \A l \in LanesOf(gb.lanes, row) \ {gb'.x[row + 1] + 1} :
               gb'.laneSnapshots[row + 1].lanes[l] = -1
         /\ \A l \in 1..Len(gb'.laneSnapshots[row + 1].lanes) :
               (l # gb'.x[row + 1] + 1 /\ gb'.laneSnapshots[row + 1].lanes[l] # -1) =>
                  /\ l <= Len(gb'.postLaneSnapshots[row + 1].lanes)
                  /\ gb'.postLaneSnapshots[row + 1].lanes[l]
                        = gb'.laneSnapshots[row + 1].lanes[l]]_vars

\* The vertex placed last held two or more lanes when its row began, one
\* of them handed down by a first-parent child in another lane.
C34_Witness ==
    /\ row > 1
    /\ Cardinality(LanesOf(gb.postLaneSnapshots[row - 1].lanes, row - 1)) >= 2
    /\ \E c \in 0..(row - 2) :
          /\ Len(gb.parents[c + 1]) > 0
          /\ gb.parents[c + 1][1] = row - 1
          /\ gb.x[c + 1] # gb.x[row]

\* Every parent in the window is listed after all of its children.
ParentsAfterChildren ==
    \A i \in 1..Len(gb.parents) : \A j \in 1..Len(gb.parents[i]) : gb.parents[i][j] > i - 1

\* Lane l (1-based) of a snapshot holds vertex p.
Holds(snap, l, p) == l <= Len(snap.lanes) /\ snap.lanes[l] = p

\* C35: with every parent listed after its children, a lane that holds a
\* vertex p in the post-snapshot of a row i before p holds p in the pre- and
\* the post-snapshot of every row between i and p; the post-snapshot of the
\* row before p is the lane table computeLayout enters row p with.
C35_LaneKeptUntilItsRow ==
    ParentsAfterChildren =>
       \A i \in 0..(row - 1) :
          \A l \in 1..Len(gb.postLaneSnapshots[i + 1].lanes) :
             \A k \in (i + 1)..(row - 1) :
                k < gb.postLaneSnapshots[i + 1].lanes[l] =>
                   /\ Holds(gb.laneSnapshots[k + 1], l, gb.postLaneSnapshots[i + 1].lanes[l])
                   /\ Holds(gb.postLaneSnapshots[k + 1], l, gb.postLaneSnapshots[i + 1].lanes[l])

\* The layout is finished and a lane other than lane 0 was held for a vertex
\* over two rows or more, in which other vertices were placed.
C35_Witness ==
    /\ row = Len(gb.parents)
    /\ \E i \in 0..(row - 1) :
          \E l \in 2..Len(gb.postLaneSnapshots[i + 1].lanes) :
             /\ gb.postLaneSnapshots[i + 1].lanes[l] >= i + 3
             /\ gb.x[gb.postLaneSnapshots[i + 1].lanes[l] + 1] = l - 1

\* C36: with every parent listed after its children, every occupant of the
\* post-snapshot of a row is a vertex with a greater index than the row,
\* and the post-snapshot of the last row is empty.
C36_OnlyLaterVerticesPending ==
    ParentsAfterChildren =>
       /\ \A i \in 0..(row - 1) :
             \A l \in 1..Len(gb.postLaneSnapshots[i + 1].lanes) :
                gb.postLaneSnapshots[i + 1].lanes[l] # -1 =>
                   gb.postLaneSnapshots[i + 1].lanes[l] > i
       /\ row = Len(gb.parents) /\ row > 0 =>
             \A l \in 1..Len(gb.postLaneSnapshots[row].lanes) :
                gb.postLaneSnapshots[row].lanes[l] = -1

\* The layout is finished, some row left three lanes occupied, and the last
\* vertex was placed right of lane 0.
C36_Witness ==
    /\ row = Len(gb.parents)
    /\ row > 0
    /\ gb.x[row] > 0
    /\ \E i \in 1..row :
          Cardinality({l \in 1..Len(gb.postLaneSnapshots[i].lanes) :
                          gb.postLaneSnapshots[i].lanes[l] # -1}) >= 3

\* The lane cells (1-based) of the drawn row that hold the given glyph.
CellsWith(glyph) == {l \in 1..Len(call.cells) : call.cells[l] = glyph}

\* C37: the gutter of a row has a vertical line in exactly the lanes below
\* the cap of 10 that are occupied in the post-snapshot of the row and a
\* blank cell in every other lane, and as many lane cells as the row of the
\* commit: the tracked maximum, at least 1 and at most 10.
C37_GutterFollowsPostSnapshot ==
    call.fn = "RenderLaneGutter" =>
       /\ Len(call.cells) = Min(Max(gb.maxLanes, 1), 10)
       /\ Len(call.cells) = Len(RenderCommitLine(gb, commits, call.index))
       /\ CellsWith("vertical") =
             {l \in 1..Min(Len(gb.postLaneSnapshots[call.index + 1].lanes), 10) :
                 gb.postLaneSnapshots[call.index + 1].lanes[l] # -1}
       /\ CellsWith("blank") = (1..Len(call.cells)) \ CellsWith("vertical")

\* A gutter was drawn for a layout wider than the cap, with lines and
\* blank cells.
C37_Witness ==
    /\ call.fn = "RenderLaneGutter"
    /\ gb.maxLanes > 10
    /\ CellsWith("vertical") # {}
    /\ CellsWith("blank") # {}

\* A gutter was drawn for a row whose post-snapshot is wider than the cap.
GutterBeyondCap ==
    /\ call.fn = "RenderLaneGutter"
    /\ Len(gb.postLaneSnapshots[call.index + 1].lanes) > 10

\* ------------------------------------------------------------------------
\* Properties of the diff pipeline (DiffSpec)
\* ------------------------------------------------------------------------

\* dlines[i] is the first removal line of dlines: every line before it
\* gives one row, so its run starts at row i.
IsFirstRemoval(dlines, i) ==
    /\ dlines[i].kind = "-"
    /\ \A k \in 1..(i - 1) : dlines[k].kind # "-"

\* Row p is the j-th row of a run whose removals are rs and whose additions
\* are as: each side is populated iff the run has a j-th line for it.
ZippedRow(p, rs, as, j) ==
    /\ IF j <= Len(rs)
       THEN p.leftKind = "-" /\ p.leftNum = rs[j].oldNum /\ p.leftText = rs[j].content
       ELSE p.leftKind = "" /\ p.leftNum = 0 /\ p.leftText = <<>>
    /\ IF j <= Len(as)
       THEN p.rightKind = "+" /\ p.rightNum = as[j].newNum /\ p.rightText = as[j].content
       ELSE p.rightKind = "" /\ p.rightNum = 0 /\ p.rightText = <<>>

\* The run of R removals from dlines[i] on and the A additions after it is
\* rows i .. i + max(R, A) - 1 of pairs, and the next line of dlines, if
\* any, is left for the rows after them.
ZippedAt(dlines, pairs, i, R, A) ==
    /\ Len(pairs) >= i - 1 + Max(R, A)
    /\ \A j \in 1..Max(R, A) :
          ZippedRow(pairs[i - 1 + j], SubSeq(dlines, i, i + R - 1),
                    SubSeq(dlines, i + R, i + R + A - 1), j)
    /\ i + R + A - 1 = Len(dlines) => Len(pairs) = i - 1 + Max(R, A)

\* The number of lines of the given kind from dlines[i] on.
RunOf(dlines, i, kind) ==
    Cardinality({n \in 1..(Len(dlines) - i + 1) :
                    \A k \in i..(i + n - 1) : dlines[k].kind = kind})

\* C15: buildSideBySidePairs turns a run of R removals followed by a run of
\* A additions into exactly max(R, A) rows; row j has the j-th removal on
\* the left iff j <= R and the j-th addition on the right iff j <= A.
C15_RunsZipped ==
    call.stage = "paired" =>
       \A i \in 1..Len(call.dlines) :
          IsFirstRemoval(call.dlines, i) =>
             ZippedAt(call.dlines, call.pairs, i, RunOf(call.dlines, i, "-"),
                      RunOf(call.dlines, i + RunOf(call.dlines, i, "-"), "+"))

\* Three removals followed by one addition have been paired.
C15_Witness ==
    /\ call.stage = "paired"
    /\ \E i \in 1..Len(call.dlines) :
          /\ IsFirstRemoval(call.dlines, i)
          /\ RunOf(call.dlines, i, "-") = 3
          /\ RunOf(call.dlines, i + 3, "+") = 1
          /\ call.pairs[i].rightKind = "+"
          /\ call.pairs[i + 2].rightKind = ""

\* ------------------------------------------------------------------------
\* Properties of the inline panels (ModalSpec)
\* ------------------------------------------------------------------------

\* The inline panels that are visible.
VisiblePanels ==
    {p \in {"commit", "branch", "help"} :
        \/ p = "commit" /\ modals.commitVisible
        \/ p = "branch" /\ modals.branchVisible
        \/ p = "help" /\ modals.helpVisible}

\* C28: at most one of the commit input, the branch picker and the help
\* panel is visible at any time, under every interleaving of key events
\* with the branchesLoadedMsg that arrives asynchronously.
C28_AtMostOnePanel == Cardinality(VisiblePanels) <= 1

\* The line after the hunk header at position k of the parsed lines carries
\* the starts a and c: a removal is numbered a, an addition c, a context
\* line both.
RestartsAt(dlines, k, a, c) ==
    k < Len(dlines) =>
       /\ dlines[k + 1].kind \in {"-", " "} => dlines[k + 1].oldNum = a
       /\ dlines[k + 1].kind \in {"+", " "} => dlines[k + 1].newNum = c

\* C38: parseHunkHeader returns a and c as old and new start for the header
\* "@@ -a,b +c,d @@" and for the forms with one or both counts left out, and
\* parseDiffLines restarts both line counters from them at every header.
C38_CountersRestartAtHeader ==
    call.stage = "parsed" =>
       \A k \in 1..Len(call.dlines) :
          \A form \in HunkForms, a \in 1..12, c \in 1..12 :
             call.dlines[k].content = HunkHeader(form, a, c) =>
                /\ call.dlines[k].kind = "@"
                /\ RestartsAt(call.dlines, k, a, c)

\* The positions of a sequence of lines after its first hunk header; lines
\* are raw lines or parsed lines, isHeader tells a header.
InHunk(lines, isHeader(_)) ==
    {i \in 1..Len(lines) : \E h \in 1..(i - 1) : isHeader(lines[h])}

RawHeader(line) == HasPrefix(line, <<"@", "@">>)

ParsedHeader(dl) == dl.kind = "@"

\* The raw lines inside a hunk that begin with the sign, and the parsed
\* lines inside a hunk of that kind.
RawSigned(raw, sign) ==
    {i \in InHunk(raw, RawHeader) : ~RawHeader(raw[i]) /\ HasPrefix(raw[i], <<sign>>)}

ParsedSigned(dlines, sign) ==
    {k \in InHunk(dlines, ParsedHeader) : dlines[k].kind = sign}

\* C39: every line inside a hunk that begins with "-" or "+", one whose
\* content begins with "--" or "++" included, becomes exactly one removal or
\* addition line, and the line after it is numbered one higher on that
\* side.
C39_SignedLinesKept ==
    call.stage = "parsed" =>
       /\ Cardinality(ParsedSigned(call.dlines, "-")) = Cardinality(RawSigned(call.raw, "-"))
       /\ Cardinality(ParsedSigned(call.dlines, "+")) = Cardinality(RawSigned(call.raw, "+"))
       /\ \A k \in 1..(Len(call.dlines) - 1) :
             /\ (call.dlines[k].kind = "-" /\ call.dlines[k + 1].kind \in {"-", " "}) =>
                   call.dlines[k + 1].oldNum = call.dlines[k].oldNum + 1
             /\ (call.dlines[k].kind = "+" /\ call.dlines[k + 1].kind \in {"+", " "}) =>
                   call.dlines[k + 1].newNum = call.dlines[k].newNum + 1

\* The rows are the rendered rows of the first n pairs, one row per pair.
RowPerPair(rows, pairs, n) ==
    \A k \in 1..n :
       \E maxWidth \in DiffWidths :
          rows[k] = renderPair(pairs[k], maxWidth, contentWidthFor(maxWidth))

\* The pairing of a text of context lines is the pairing the long texts
\* start with.
ContextTextsPaired ==
    (call.stage = "paired" /\ call.raw = ContextText(Len(call.raw))) =>
       /\ call.dlines = ContextLines(Len(call.raw))
       /\ call.pairs = ContextPairs(Len(call.raw))

\* C40: FormatDiffLines returns one row per paired row when the pairing has
\* at most 300 rows; for a pairing of P > 300 rows it returns the first 300
\* rows and after them one summary row that reports P - 300 more rows.
C40_RowsCapped ==
    call.stage = "rendered" =>
       IF Len(call.pairs) <= 300
       THEN /\ Len(call.rows) = Len(call.pairs)
            /\ RowPerPair(call.rows, call.pairs, Len(call.pairs))
       ELSE /\ Len(call.rows) = 301
            /\ RowPerPair(call.rows, call.pairs, 300)
            /\ call.rows[301] = [row |-> "more", count |-> Len(call.pairs) - 300]

\* FormatDiffLines has returned for a pairing of more than 301 rows.
C40_Witness ==
    /\ call.stage = "rendered"
    /\ Len(call.pairs) > 301
    /\ Len(call.rows) = 301

====
